---- MODULE Spec2Model ----
(***************************************************************************)
(* Model of the dsas-cca-backend core:                                     *)
(*   - engage-api/get-activity.ts : credential store, login, validity      *)
(*     probe, fetch client and the fetchActivityData orchestrator;         *)
(*   - services/cache-manager.ts  : the reconciliation engine (bulk        *)
(*     population, staleness sweep, staff refresh) behind one p-limit      *)
(*     limiter;                                                            *)
(*   - services/redis-service.ts  : the cache store accessors.             *)
(* Every await of the source is a separate step, so that the steps of      *)
(* concurrent calls interleave the way the event loop interleaves them.    *)
(***************************************************************************)
EXTENDS Integers, Sequences, FiniteSets, TLC

\* ------------------------------------------------------------------------
\* Bounds of the model
\* ------------------------------------------------------------------------
\* total number of fetchActivityData calls started in one behaviour
MaxCalls == 1
\* the concurrent callers of fetchActivityData (route handlers, jobs)
Callers == {"c1", "c2"}

\* ------------------------------------------------------------------------
\* Program constants
\* ------------------------------------------------------------------------
\* testCookieValidity: const MAX_RETRIES = 3
MAX_RETRIES == 3
\* getActivityDetailsRaw: maxRetries: number = 3
maxRetries == 3

\* "no cookie": null / missing file
NoCookie == 0
\* the token a previous process run may have left in the cookie file
OldCookie == 1

\* the activity ids of the model (MIN_ACTIVITY_ID_SCAN..MAX_ACTIVITY_ID_SCAN)
MIN_ACTIVITY_ID_SCAN == 1
MAX_ACTIVITY_ID_SCAN == 2
Ids == MIN_ACTIVITY_ID_SCAN..MAX_ACTIVITY_ID_SCAN

VARIABLES
    inMemoryCookie,   \* let _inMemoryCookie: string | null
    cookieFile,       \* content of COOKIE_FILE_PATH (NoCookie: no file)
    nextTok,          \* next token the portal issues on a successful login
    nCalls,           \* fetchActivityData calls started so far
    call,             \* per caller: the activation record of fetchActivityData
    loginForm,        \* getMSAUTH taken alone: the response and what it returns
    now,              \* the clock (in units of the staleness threshold)
    cache,            \* redis: activityId -> entry ("activity:<id>" keys)
    queue,            \* p-limit: the jobs waiting for a slot, in order
    activeCount,      \* p-limit: the slots granted and not yet released
    job,              \* the entity jobs submitted through limit(...)
    run,              \* the activations of initializeClubCache / updateStaleClubs
    nRuns,            \* activations started so far
    staff,            \* the activation of initializeOrUpdateStaffCache
    staffData,        \* redis: the 'staffs:all' record
    s3objects,        \* the object keys held by the S3 bucket
    config            \* process.env: what is configured

\* loginForm is changed by the two steps of getMSAUTH taken alone and by no
\* other action, so it is listed with both groups
orchVars == <<inMemoryCookie, cookieFile, nextTok, nCalls, call, loginForm>>

engVars == <<queue, activeCount, job, run, nRuns, staff, staffData, s3objects,
             config, loginForm>>

vars == <<orchVars, now, cache, engVars>>

\* ------------------------------------------------------------------------
\* Cache entries (models/activity.ts: ActivityData, the cache-related part)
\* ------------------------------------------------------------------------
NoCheck == -1
\* the photo field: absent, an embedded data:image string, or the public
\* url of an object of the bucket
NoPhoto == [scheme |-> "none", key |-> <<0, 0>>]
Base64Photo == [scheme |-> "data:image", key |-> <<0, 0>>]
\* no key in redis
Missing == [kind |-> "missing", lastCheck |-> NoCheck, error |-> FALSE,
            photo |-> NoPhoto]
\* the key holds "{}"
EmptyObj == [kind |-> "emptyobj", lastCheck |-> NoCheck, error |-> FALSE,
             photo |-> NoPhoto]
\* { lastCheck, source: 'api-fetch-empty' }
EmptyRecord(t) == [kind |-> "api-fetch-empty", lastCheck |-> t, error |-> FALSE,
                   photo |-> NoPhoto]
\* a structured activity with lastCheck
NormalRecord(t) == [kind |-> "normal", lastCheck |-> t, error |-> FALSE,
                    photo |-> NoPhoto]
\* a structured activity with lastCheck and a photo
PhotoRecord(t, p) == [kind |-> "normal", lastCheck |-> t, error |-> FALSE,
                      photo |-> p]
\* { lastCheck, error: "Failed to fetch or process" }
ErrorRecord(t) == [kind |-> "error", lastCheck |-> t, error |-> TRUE,
                   photo |-> NoPhoto]

\* ------------------------------------------------------------------------
\* getMSAUTH: the choice of the .ASPXFORMSAUTH cookie in the Set-Cookie
\* header of the login form's response
\* ------------------------------------------------------------------------
\* longest Set-Cookie header considered
MaxHeaderLen == 3

\* formsAuthCookieValue = null
Null == [name |-> "null", value |-> ""]

\* a Set-Cookie entry "<name>=<value>; path=/; ...": value is the text after
\* '=' of the first ';'-separated part, trimmed ("" when nothing is left)
SetCookies ==
    [name : {".ASPXFORMSAUTH", "ASP.NET_SessionId"}, value : {"", "A"}]
        \cup {[name |-> ".ASPXFORMSAUTH", value |-> "B"]}

\* response.headers['set-cookie']: undefined and [] are both << >>
SetCookieHeaders ==
    UNION {[1..n -> SetCookies] : n \in 0..MaxHeaderLen}

\* setCookieHeader.filter(cookie => cookie.trim().startsWith('.ASPXFORMSAUTH='))
AspxAuthCookies(setCookieHeader) ==
    SelectSeq(setCookieHeader, LAMBDA cookie : cookie.name = ".ASPXFORMSAUTH")

\* variant: the loop runs from the first candidate up
RECURSIVE FirstCandidate(_, _)
FirstCandidate(aspxAuthCookies, i) ==
    IF i > Len(aspxAuthCookies) THEN Null
    ELSE IF aspxAuthCookies[i].value # "" THEN aspxAuthCookies[i]
    ELSE FirstCandidate(aspxAuthCookies, i + 1)

FormsAuthCookieValueFirst(setCookieHeader) ==
    FirstCandidate(AspxAuthCookies(setCookieHeader), 1)

\* for (let i = aspxAuthCookies.length - 1; i >= 0; i--): the first candidate
\* met whose first part is longer than '.ASPXFORMSAUTH=' (i is 1-based here)
RECURSIVE LastCandidate(_, _)
LastCandidate(aspxAuthCookies, i) ==
    IF i = 0 THEN Null
    ELSE IF aspxAuthCookies[i].value # "" THEN aspxAuthCookies[i]
    ELSE LastCandidate(aspxAuthCookies, i - 1)

\* what getMSAUTH returns for a response with this header
FormsAuthCookieValue(setCookieHeader) ==
    LastCandidate(AspxAuthCookies(setCookieHeader),
                  Len(AspxAuthCookies(setCookieHeader)))

\* no login form response is looked at
NoLoginForm ==
    [ pc                   |-> "idle",
      setCookieHeader      |-> << >>,
      formsAuthCookieValue |-> Null,
      completeCookies      |-> "none" ]

\* the POST of the login form has been answered with this header
Answered(setCookieHeader) ==
    [NoLoginForm EXCEPT !.pc = "answered", !.setCookieHeader = setCookieHeader]

\* getMSAUTH picks the cookie and returns it, or null
GetMSAUTHReturn ==
    /\ loginForm.pc = "answered"
    /\ loginForm' = [loginForm EXCEPT
            !.pc = "returned",
            !.formsAuthCookieValue = FormsAuthCookieValue(loginForm.setCookieHeader)]
    /\ UNCHANGED <<inMemoryCookie, cookieFile, nextTok, nCalls, call, now, cache,
                   queue, activeCount, job, run, nRuns, staff, staffData,
                   s3objects, config>>

\* getCompleteCookies: if (!msAuth) throw new Error("Login failed: ...");
\* return `${sessionId}; ${msAuth}`
GetCompleteCookies ==
    /\ loginForm.pc = "returned"
    /\ loginForm' = [loginForm EXCEPT
            !.pc = "done",
            !.completeCookies =
                IF loginForm.formsAuthCookieValue = Null THEN "throw"
                ELSE "cookie"]
    /\ UNCHANGED <<inMemoryCookie, cookieFile, nextTok, nCalls, call, now, cache,
                   queue, activeCount, job, run, nRuns, staff, staffData,
                   s3objects, config>>

\* ------------------------------------------------------------------------
\* The activation record of one fetchActivityData call
\* ------------------------------------------------------------------------
IdleCall ==
    [ pc            |-> "idle",
      forceLogin    |-> FALSE,
      currentCookie |-> NoCookie,
      fileBuf       |-> NoCookie,   \* cookieFromFile read by readFile
      phase         |-> 1,          \* 1: first pass, 2: the re-login retry
      attempt       |-> 0,          \* loop counter of probe / fetch client
      delay         |-> 0,          \* last backoff delay waited (ms)
      result        |-> "none",     \* "payload" | "absent"
      loaded        |-> NoCookie,   \* what loadCachedCookie returned
      storeAtStart  |-> FALSE,      \* a token was in the store at call time
      trace         |-> << >>,      \* the calls made, in order
      fetchToks     |-> << >>,      \* cookie passed to each Fetch Client call
      probes        |-> 0,          \* probe requests made by testCookieValidity
      lastOut       |-> "none",     \* last answer to getActivityDetailsRaw
      rejected      |-> {},         \* tokens this call has seen rejected
      requests      |-> 0,          \* HTTP requests sent to the portal so far
      activityId    |-> MIN_ACTIVITY_ID_SCAN ]

\* number of occurrences of event e in trace s
RECURSIVE Count(_, _)
Count(s, e) ==
    IF s = << >> THEN 0
    ELSE (IF Head(s) = e THEN 1 ELSE 0) + Count(Tail(s), e)

\* position of the first occurrence of e in s, 0 when absent
RECURSIVE FirstAt(_, _, _)
FirstAt(s, e, i) ==
    IF i > Len(s) THEN 0
    ELSE IF s[i] = e THEN i ELSE FirstAt(s, e, i + 1)

First(s, e) == FirstAt(s, e, 1)

Ev(r, e) == [r EXCEPT !.trace = Append(@, e)]

\* ------------------------------------------------------------------------
\* fetchActivityData: the pieces between two awaits
\* ------------------------------------------------------------------------
\* return <res> to the caller
Return(r, res) == [r EXCEPT !.pc = "done", !.result = res, !.attempt = 0]

\* getCompleteCookies is called: the GET of getSessionId is in flight
StartLogin(r) == Ev([r EXCEPT !.pc = "sessionId", !.currentCookie = NoCookie], "login")

\* variant: the login failure is swallowed and the fetch goes on
LoginCatchGoesOn(r) ==
    Ev([r EXCEPT !.pc = "fetch", !.attempt = 0,
                 !.fetchToks = Append(@, r.currentCookie)], "fetch")

\* catch (loginError) { ...; return null; }
LoginCatch(r) == Return(r, "absent")

\* variant: a failed retry starts one more re-login
RetryCatchAgain(r) == StartLogin(r)

\* catch (retryLoginOrFetchError) { ...; return null; }
RetryCatch(r) == Return(r, "absent")

\* variant: the non-authentication error is thrown to the caller
FetchCatchOtherRethrows(r) == [r EXCEPT !.pc = "raised"]

\* variant: the outer catch treats every error as an authentication error
FetchCatchOtherClears(r) ==
    Ev([r EXCEPT !.pc = "unlink", !.attempt = 0, !.phase = 2], "clear")

\* the else branch of the outer catch: a non-authentication error
FetchCatchOther(r) == Return(r, "absent")

\* testCookieValidity is called: the first probe request is in flight
StartProbe(r) == [r EXCEPT !.pc = "probe", !.attempt = 1]

\* getActivityDetailsRaw(activityId, currentCookie) is called
StartFetch(r) ==
    Ev([r EXCEPT !.pc = "fetch", !.attempt = 0, !.lastOut = "none",
                 !.fetchToks = Append(@, r.currentCookie)], "fetch")

\* clearCookieCache is called: _inMemoryCookie is reset, unlink is in flight
StartClear(r) == Ev([r EXCEPT !.pc = "unlink", !.attempt = 0], "clear")

\* getCompleteCookies throws, in the first pass or in the retry
LoginThrow(r) ==
    IF r.phase = 1 THEN LoginCatch(Ev(r, "loginFail"))
    ELSE RetryCatch(Ev(r, "loginFail"))

\* variant: a loaded cookie is used without the validity probe
AfterLoadNoProbe(r) ==
    IF r.forceLogin /\ r.currentCookie # NoCookie THEN StartClear(r)
    ELSE IF r.currentCookie # NoCookie THEN StartFetch(r)
    ELSE StartLogin(r)

\* the three guards after loadCachedCookie:
\*   if (forceLogin && currentCookie) clear; if (currentCookie) probe;
\*   if (!currentCookie) login
AfterLoad(r) ==
    IF r.forceLogin /\ r.currentCookie # NoCookie THEN StartClear(r)
    ELSE IF r.currentCookie # NoCookie THEN StartProbe(r)
    ELSE StartLogin(r)

\* let currentCookie = forceLogin ? null : await loadCachedCookie();
\* loadCachedCookie answers from the in-memory holder when it is set
FetchActivityData(c, id, force) ==
    /\ call[c].pc = "idle"
    /\ nCalls < MaxCalls
    /\ nCalls' = nCalls + 1
    /\ LET r0 == [IdleCall EXCEPT
                    !.forceLogin = force, !.activityId = id,
                    !.storeAtStart = (inMemoryCookie # NoCookie \/ cookieFile # NoCookie)]
       IN  call' = [call EXCEPT ![c] =
                IF force THEN AfterLoad(r0)
                ELSE IF inMemoryCookie # NoCookie
                     THEN AfterLoad([r0 EXCEPT !.currentCookie = inMemoryCookie,
                                               !.loaded = inMemoryCookie])
                     ELSE [r0 EXCEPT !.pc = "readFile"]]
    /\ inMemoryCookie' =
          IF call'[c].pc = "unlink" THEN NoCookie ELSE inMemoryCookie
    /\ UNCHANGED <<cookieFile, nextTok, now, cache, engVars>>

\* readFile(COOKIE_FILE_PATH) completes: content, ENOENT or another error
ReadFile(c, ok) ==
    /\ call[c].pc = "readFile"
    /\ call' = [call EXCEPT ![c] =
            [@ EXCEPT !.pc = "readDone",
                      !.fileBuf = IF ok THEN cookieFile ELSE NoCookie]]
    /\ UNCHANGED <<inMemoryCookie, cookieFile, nextTok, nCalls, now, cache, engVars>>

\* loadCachedCookie resumes after readFile, then fetchActivityData goes on
LoadCachedCookie(c) ==
    /\ call[c].pc = "readDone"
    /\ LET buf == call[c].fileBuf
           r1  == [call[c] EXCEPT !.currentCookie = buf, !.loaded = buf]
       IN  /\ call' = [call EXCEPT ![c] = AfterLoad(r1)]
           /\ inMemoryCookie' =
                 IF call'[c].pc = "unlink" THEN NoCookie
                 ELSE IF buf # NoCookie THEN buf ELSE inMemoryCookie
    /\ UNCHANGED <<cookieFile, nextTok, nCalls, now, cache, engVars>>

\* variant: the first failed probe request makes testCookieValidity
\* return false
ProbeFailedGivesUp(r) ==
    StartClear(Ev([r EXCEPT !.probes = r.attempt,
                            !.rejected = @ \cup {r.currentCookie}], "probeInvalid"))

\* the catch of testCookieValidity: false when attempt >= MAX_RETRIES
\* (fetchActivityData then clears the store), else the next request
ProbeFailed(r) ==
    IF r.attempt >= MAX_RETRIES
    THEN StartClear(Ev([r EXCEPT !.probes = r.attempt,
                                 !.rejected = @ \cup {r.currentCookie}], "probeInvalid"))
    ELSE [r EXCEPT !.attempt = @ + 1]

\* one probe request of testCookieValidity is answered: a 2xx returns true
TestCookieValidity(c, ok) ==
    /\ call[c].pc = "probe"
    /\ LET r == [call[c] EXCEPT !.requests = @ + 1] IN
       call' = [call EXCEPT ![c] =
                  IF ok THEN StartFetch(Ev([r EXCEPT !.probes = r.attempt], "probeValid"))
                  ELSE ProbeFailed(r)]
    /\ inMemoryCookie' = IF call'[c].pc = "unlink" THEN NoCookie ELSE inMemoryCookie
    /\ UNCHANGED <<cookieFile, nextTok, nCalls, now, cache, engVars>>

\* variant: an error of unlink leaves clearCookieCache and fetchActivityData
AfterClearUnlinkErrorThrown(r, ok) ==
    IF ok THEN StartLogin(r) ELSE Return(r, "absent")

\* clearCookieCache returns (the catch of unlink only logs), and
\* fetchActivityData logs in again
AfterClear(r, ok) == StartLogin(r)

\* clearCookieCache resumes after unlink (ok, ENOENT, or another error that
\* leaves the file in place); fetchActivityData then logs in
ClearCookieCache(c, ok) ==
    /\ call[c].pc = "unlink"
    /\ cookieFile' = IF ok THEN NoCookie ELSE cookieFile
    /\ call' = [call EXCEPT ![c] = AfterClear(@, ok)]
    /\ UNCHANGED <<inMemoryCookie, nextTok, nCalls, now, cache, engVars>>

\* getSessionId: the GET of the login page is answered
GetSessionId(c, out) ==
    /\ call[c].pc = "sessionId"
    /\ call' = [call EXCEPT ![c] =
            IF out = "ok" THEN [@ EXCEPT !.pc = "msauth", !.requests = @ + 1]
            ELSE LoginThrow([@ EXCEPT !.requests = @ + 1])]
    /\ UNCHANGED <<inMemoryCookie, cookieFile, nextTok, nCalls, now, cache, engVars>>

\* getMSAUTH: the login form POST is answered; on success
\* saveCookieToCache sets the in-memory holder and starts writeFile
GetMSAUTH(c, out) ==
    /\ call[c].pc = "msauth"
    /\ IF out = "ok"
       THEN /\ call' = [call EXCEPT ![c] =
                   Ev([@ EXCEPT !.pc = "writeFile", !.currentCookie = nextTok,
                                !.requests = @ + 1], "save")]
            /\ inMemoryCookie' = nextTok
            /\ nextTok' = nextTok + 1
       ELSE /\ call' = [call EXCEPT ![c] = LoginThrow([@ EXCEPT !.requests = @ + 1])]
            /\ UNCHANGED <<inMemoryCookie, nextTok>>
    /\ UNCHANGED <<cookieFile, nCalls, now, cache, engVars>>

\* variant: a failed writeFile is thrown to the try of the login
AfterSaveWriteErrorThrown(r, ok) == IF ok THEN StartFetch(r) ELSE LoginThrow(r)

\* saveCookieToCache returns (the catch of writeFile only logs), and
\* fetchActivityData goes on to the Fetch Client
AfterSave(r, ok) == StartFetch(r)

\* saveCookieToCache resumes after writeFile (a failed write is only logged)
SaveCookieToCache(c, ok) ==
    /\ call[c].pc = "writeFile"
    /\ cookieFile' = IF ok THEN call[c].currentCookie ELSE cookieFile
    /\ call' = [call EXCEPT ![c] = AfterSave(@, ok)]
    /\ UNCHANGED <<inMemoryCookie, nextTok, nCalls, now, cache, engVars>>

\* the id the route layer is asked for (GET /v1/activity/:activityId)
RequestedId == MIN_ACTIVITY_ID_SCAN

FetchOutcomes == {"data", "isError", "badshape", "4xx", "error"}

\* return response.data: fetchActivityData returns the parsed payload
ReturnData(r) == Return(Ev(r, "fetchData"), "payload")

\* variant: isError is handled like an unexpected response structure
IsErrorRetried(r) ==
    IF r.attempt + 1 < maxRetries
    THEN [r EXCEPT !.attempt = @ + 1]
    ELSE Return(Ev(r, "fetchNull"), "absent")

\* innerData.isError: return null, and fetchActivityData returns null
IsError(r) == Return(Ev(r, "fetchNull"), "absent")

\* the else branch "Unexpected API response structure": the loop goes on
\* without a delay, and falls out to the return null after the last attempt
UnexpectedStructure(r) ==
    IF r.attempt + 1 < maxRetries
    THEN [r EXCEPT !.attempt = @ + 1]
    ELSE Return(Ev(r, "fetchNull"), "absent")

\* variant: the error is rethrown one attempt later
CatchOtherOneMoreAttempt(r) ==
    IF r.attempt = maxRetries
    THEN (IF r.phase = 1 THEN FetchCatchOther(Ev(r, "fetchErr"))
          ELSE RetryCatch(Ev(r, "fetchErr")))
    ELSE [r EXCEPT !.pc = "backoff", !.delay = 1000 * (r.attempt + 1)]

\* the catch of a failure that is not a 4xx: rethrown after the last
\* attempt (to the outer or to the retry catch of fetchActivityData),
\* else the backoff delay is waited
CatchOther(r) ==
    IF r.attempt = maxRetries - 1
    THEN (IF r.phase = 1 THEN FetchCatchOther(Ev(r, "fetchErr"))
          ELSE RetryCatch(Ev(r, "fetchErr")))
    ELSE [r EXCEPT !.pc = "backoff", !.delay = 1000 * (r.attempt + 1)]

\* variant: a 4xx is retried like any other failure
ThrowAuthenticationErrorRetried(r) == CatchOther(r)

\* throw new AuthenticationError: in the first pass fetchActivityData
\* clears the store and logs in again, in the retry it returns null
ThrowAuthenticationError(r) ==
    IF r.phase = 1
    THEN StartClear(Ev([r EXCEPT !.phase = 2,
                                 !.rejected = @ \cup {r.currentCookie}], "fetchAuth"))
    ELSE RetryCatch(Ev([r EXCEPT !.rejected = @ \cup {r.currentCookie}], "fetchAuth"))

\* getActivityDetailsRaw: one POST of the detail endpoint is answered
GetActivityDetailsRaw(c, out) ==
    /\ call[c].pc = "fetch"
    /\ LET r == [call[c] EXCEPT !.lastOut = out, !.requests = @ + 1] IN
       call' = [call EXCEPT ![c] =
           CASE out = "data" -> ReturnData(r)
             [] out = "isError" -> IsError(r)
             [] out = "badshape" -> UnexpectedStructure(r)
             [] out = "4xx" -> ThrowAuthenticationError(r)
             [] out = "error" -> CatchOther(r)]
    /\ inMemoryCookie' = IF call'[c].pc = "unlink" THEN NoCookie ELSE inMemoryCookie
    /\ UNCHANGED <<cookieFile, nextTok, nCalls, now, cache, engVars>>

\* the setTimeout of the retry loop fires
Backoff(c) ==
    /\ call[c].pc = "backoff"
    /\ call' = [call EXCEPT ![c] = [@ EXCEPT !.pc = "fetch", !.attempt = @ + 1, !.delay = 0]]
    /\ UNCHANGED <<inMemoryCookie, cookieFile, nextTok, nCalls, now, cache, engVars>>

\* index.ts fetchProcessAndStoreActivity after fetchActivityData returned:
\* the route layer caches an empty record or the structured activity
FetchProcessAndStoreActivity(c) ==
    /\ call[c].pc = "done"
    /\ cache' = [cache EXCEPT ![call[c].activityId] =
            IF call[c].result = "absent" THEN EmptyRecord(now) ELSE NormalRecord(now)]
    /\ call' = [call EXCEPT ![c] = IdleCall]
    /\ UNCHANGED <<inMemoryCookie, cookieFile, nextTok, nCalls, now, engVars>>

\* ------------------------------------------------------------------------
\* services/cache-manager.ts: the reconciliation engine
\* ------------------------------------------------------------------------
\* const CONCURRENT_API_CALLS = parseInt(process.env.CONCURRENT_API_CALLS ...)
CONCURRENT_API_CALLS == 1
\* const CLUB_UPDATE_INTERVAL_MINS, in clock units
CLUB_UPDATE_INTERVAL_MINS == 1
\* const STAFF_UPDATE_INTERVAL_MINS, in clock units
STAFF_UPDATE_INTERVAL_MINS == 1

\* activations of initializeClubCache / updateStaleClubs in one behaviour
MaxRuns == 2
\* calls of initializeOrUpdateStaffCache in one behaviour
MaxStaffCalls == 2
\* the clock starts here: records of an earlier process run are older
StartTime == 2
\* the number of clock ticks in one behaviour
MaxTicks == 1

Runs == 1..MaxRuns
JobIds == Runs \X Ids

\* a non-empty record that carries no lastCheck (written by a foreign writer)
NoCheckRecord == [kind |-> "nolastcheck", lastCheck |-> NoCheck, error |-> FALSE,
                  photo |-> NoPhoto]

\* an entity job: where it is, the cachedData it read, the record it writes
NoJob == [pc |-> "none", cachedData |-> Missing, rec |-> Missing]
QueuedJob == [pc |-> "queued", cachedData |-> Missing, rec |-> Missing]
DoneJob == [pc |-> "done", cachedData |-> Missing, rec |-> Missing]
\* an activation of initializeClubCache, updateStaleClubs or a stand-alone
\* cleanupOrphanedS3Images, with the locals of the cleanup: the keys still
\* to read, referencedS3Urls, orphanedObjectKeys; orphans0 remembers the
\* objects no record referenced when the cleanup began, cleanOk whether
\* listS3Objects and deleteS3Objects answered without an error
IdleRun ==
    [kind |-> "none", pc |-> "idle", now |-> 0, toRead |-> << >>,
     referenced |-> {}, orphaned |-> {}, orphans0 |-> {}, cleanOk |-> TRUE,
     failed |-> {}, deleted |-> {}]
\* redis: no 'staffs:all' record, and a record of staff entries
NoStaffData == [kind |-> "missing", entries |-> {}, lastCheck |-> NoCheck, error |-> FALSE]
StaffObject(entries, t) ==
    [kind |-> "record", entries |-> entries, lastCheck |-> t, error |-> FALSE]
\* the staff keys of the payloads; one of them is on the blackList
BlackList == {"CL1-827"}
StaffKeys == {"T1", "T2"} \cup BlackList
\* what fetchActivityData hands to the staff refresh: null, or a payload
\* with the lParms of its staff field
AbsentJson == [present |-> FALSE, lParms |-> {}]
ActivityJson(lParms) == [present |-> TRUE, lParms |-> lParms]
StaffPayloads == {ActivityJson({"T1"}), ActivityJson({"T2", "CL1-827"})}
\* an activation of initializeOrUpdateStaffCache with its locals, and the
\* module-level map staffs of struct-staff.ts; readOk, fetched and wrote
\* remember whether getStaffData answered without an error, what the fetch
\* returned and whether setStaffData was called and stored the record;
\* absents counts the fetches so far that returned nothing, lParms is the
\* staff field of the last payload fetched
IdleStaff ==
    [pc |-> "idle", forceUpdate |-> FALSE, now |-> 0, readOk |-> TRUE,
     cachedStaffData |-> NoStaffData, staffObject |-> NoStaffData,
     fetched |-> "none", wrote |-> "none", staffs |-> {}, calls |-> 0,
     absents |-> 0, lParms |-> {}]

\* API_USERNAME and API_PASSWORD, FIXED_STAFF_ACTIVITY_ID, the S3_* settings
AllConfigured == [credentials |-> TRUE, staffId |-> TRUE, s3 |-> TRUE, endpoint |-> TRUE]
\* API_USERNAME or API_PASSWORD is not set
NoCredentials == [credentials |-> FALSE, staffId |-> TRUE, s3 |-> TRUE, endpoint |-> TRUE]
\* the S3 settings are incomplete: "S3 operations will be disabled"
NoS3Configured == [credentials |-> TRUE, staffId |-> TRUE, s3 |-> FALSE, endpoint |-> FALSE]
\* the S3 client is configured (access key, secret, bucket), S3_ENDPOINT is not
NoEndpointConfigured == [credentials |-> TRUE, staffId |-> TRUE, s3 |-> TRUE, endpoint |-> FALSE]

EngineIdle ==
    /\ queue = << >>
    /\ activeCount = 0
    /\ job = [j \in JobIds |-> NoJob]
    /\ run = [r \in Runs |-> IdleRun]
    /\ nRuns = 0
    /\ staff = IdleStaff

\* the ids of a set, in ascending order (the order of the for loops)
RECURSIVE Ascending(_)
Ascending(S) ==
    IF S = {} THEN << >>
    ELSE LET m == CHOOSE x \in S : \A y \in S : x <= y
         IN  <<m>> \o Ascending(S \ {m})

\* the pcs of a job that holds a limiter slot
RunningPcs == {"get", "fetching", "upload", "set"}
InFlightJobs == {j \in JobIds : job[j].pc \in RunningPcs}

\* variant: the lastCheck of the cached record is not looked at
InitNeedsProcessingAlways(cachedData) ==
    \/ cachedData.kind # "emptyobj"
    \/ cachedData.error

\* variant: a record without lastCheck is taken for a checked one
InitNeedsProcessingIgnoresLastCheck(cachedData) ==
    \/ cachedData.kind = "missing"
    \/ cachedData.kind = "emptyobj"
    \/ cachedData.error

\* initializeClubCache: the test that sends an id to processAndCacheActivity
\*   !cachedData || Object.keys(cachedData).length === 0 ||
\*   !cachedData.lastCheck || cachedData.error
InitNeedsProcessing(cachedData) ==
    \/ cachedData.kind = "missing"
    \/ cachedData.kind = "emptyobj"
    \/ cachedData.lastCheck = NoCheck
    \/ cachedData.error

\* variant: the age of the record is not compared with the threshold
StaleNeedsProcessingNoThreshold(cachedData, t0) ==
    IF cachedData.kind # "missing" /\ cachedData.lastCheck # NoCheck
    THEN TRUE
    ELSE cachedData.kind = "missing" \/ cachedData.kind = "emptyobj"

\* variant: the error marker of a checked record is not looked at
StaleNeedsProcessingIgnoresError(cachedData, t0) ==
    IF cachedData.kind # "missing" /\ cachedData.lastCheck # NoCheck
    THEN (t0 - cachedData.lastCheck) > CLUB_UPDATE_INTERVAL_MINS
    ELSE cachedData.kind = "missing" \/ cachedData.kind = "emptyobj"

\* updateStaleClubs: the test that sends an id to processAndCacheActivity
StaleNeedsProcessing(cachedData, t0) ==
    IF cachedData.kind # "missing" /\ cachedData.lastCheck # NoCheck
    THEN (t0 - cachedData.lastCheck) > CLUB_UPDATE_INTERVAL_MINS \/ cachedData.error
    ELSE cachedData.kind = "missing" \/ cachedData.kind = "emptyobj"

\* variant: the slot of a job that cached an error marker is not released
LimitNextLeaksOnError(j) ==
    IF queue = << >> \/ job[j].rec.error
    THEN /\ activeCount' = IF job[j].rec.error THEN activeCount ELSE activeCount - 1
         /\ job' = [job EXCEPT ![j] = IF job[j].rec.error THEN @ ELSE DoneJob]
         /\ UNCHANGED queue
    ELSE /\ activeCount' = activeCount
         /\ job' = [job EXCEPT ![j] = DoneJob,
                               ![Head(queue)] = [@ EXCEPT !.pc = "get"]]
         /\ queue' = Tail(queue)

\* p-limit next(): the slot is released and, if a job waits, it is granted
\* to the head of the queue at once
LimitNext(j) ==
    IF queue = << >>
    THEN /\ activeCount' = activeCount - 1
         /\ job' = [job EXCEPT ![j] = DoneJob]
         /\ UNCHANGED queue
    ELSE /\ activeCount' = activeCount
         /\ job' = [job EXCEPT ![j] = DoneJob,
                               ![Head(queue)] = [@ EXCEPT !.pc = "get"]]
         /\ queue' = Tail(queue)

\* variant: a waiting job is started without looking at activeCount
LimitStartUnbounded ==
    /\ queue # << >>
    /\ activeCount' = activeCount + 1
    /\ job' = [job EXCEPT ![Head(queue)] = [@ EXCEPT !.pc = "get"]]
    /\ queue' = Tail(queue)
    /\ UNCHANGED <<orchVars, config, s3objects, now, cache, run, nRuns, staff, staffData>>

\* p-limit enqueue(): after a limit(fn) call, a waiting job is started when
\* activeCount < concurrency; fn starts with await getActivityData(activityId)
LimitStart ==
    /\ queue # << >>
    /\ activeCount < CONCURRENT_API_CALLS
    /\ activeCount' = activeCount + 1
    /\ job' = [job EXCEPT ![Head(queue)] = [@ EXCEPT !.pc = "get"]]
    /\ queue' = Tail(queue)
    /\ UNCHANGED <<orchVars, config, s3objects, now, cache, run, nRuns, staff, staffData>>

\* export async function initializeClubCache(): the for loop submits one job
\* per id of the range, then the function waits on Promise.all
InitializeClubCache(r) ==
    /\ r = nRuns + 1
    /\ run[r].pc = "idle"
    /\ nRuns' = nRuns + 1
    /\ run' = [run EXCEPT ![r] =
            [IdleRun EXCEPT !.kind = "init", !.pc = "waiting"]]
    /\ job' = [j \in JobIds |->
            IF j[1] = r THEN QueuedJob ELSE job[j]]
    /\ queue' = queue \o [k \in 1..Cardinality(Ids) |-> <<r, Ascending(Ids)[k]>>]
    /\ UNCHANGED <<orchVars, config, s3objects, now, cache, activeCount, staff, staffData>>

\* export async function updateStaleClubs(): now is taken, then the function
\* waits for getAllActivityKeys
UpdateStaleClubs(r) ==
    /\ r = nRuns + 1
    /\ run[r].pc = "idle"
    /\ nRuns' = nRuns + 1
    /\ run' = [run EXCEPT ![r] =
            [IdleRun EXCEPT !.kind = "sweep", !.pc = "scan", !.now = now]]
    /\ UNCHANGED <<orchVars, config, s3objects, now, cache, queue, activeCount, job, staff, staffData>>

\* export function constructS3Url(objectKey): '' when the endpoint or the
\* bucket is not configured, else endpoint/bucket/key
NoUrl == [scheme |-> "", key |-> <<0, 0>>]
S3Url(objectKey) == [scheme |-> "s3", key |-> objectKey]
ConstructS3Url(objectKey) == IF config.endpoint THEN S3Url(objectKey) ELSE NoUrl

\* the objects of the bucket whose url is the photo of no cached record and
\* of no record an entity job is about to write
Unreferenced ==
    {o \in s3objects :
        /\ \A i \in Ids : cache[i].photo # ConstructS3Url(o)
        /\ \A j \in JobIds : job[j].rec.photo # ConstructS3Url(o)}

\* cleanupOrphanedS3Images is entered: getAllActivityKeys is in flight
StartCleanup(rr) ==
    [rr EXCEPT !.pc = "cscan", !.toRead = << >>, !.referenced = {},
               !.orphaned = {}, !.orphans0 = Unreferenced, !.cleanOk = TRUE,
               !.failed = {}, !.deleted = {}]

\* cleanupOrphanedS3Images returns: to updateStaleClubs, which goes on to
\* await Promise.all, or to performBackgroundTasks
EndCleanup(rr) ==
    [rr EXCEPT !.pc = IF rr.kind = "sweep" THEN "waiting" ELSE "returned",
               !.toRead = << >>, !.referenced = {}, !.orphaned = {},
               !.orphans0 = {}]

\* the for loop over allActivityRedisKeys is over: listS3Objects is called
AfterReads(rr) == IF rr.toRead = << >> THEN [rr EXCEPT !.pc = "list"] ELSE rr

\* getAllActivityKeys answers (an empty list on a redis error); the for loop
\* submits one job per key; cleanupOrphanedS3Images is called
GetAllActivityKeys(r, ok) ==
    /\ run[r].pc = "scan"
    /\ LET keys == IF ok THEN {i \in Ids : cache[i].kind # "missing"} ELSE {}
       IN  /\ job' = [j \in JobIds |->
                  IF j[1] = r /\ j[2] \in keys
                  THEN QueuedJob ELSE job[j]]
           /\ queue' = queue \o
                  [k \in 1..Cardinality(keys) |-> <<r, Ascending(keys)[k]>>]
    /\ run' = [run EXCEPT ![r] = StartCleanup(@)]
    /\ UNCHANGED <<orchVars, config, s3objects, now, cache, activeCount, nRuns, staff, staffData>>

\* export async function cleanupOrphanedS3Images(), called on its own
\* (index.ts performBackgroundTasks)
CleanupOrphanedS3Images(r) ==
    /\ r = nRuns + 1
    /\ run[r].pc = "idle"
    /\ nRuns' = nRuns + 1
    /\ run' = [run EXCEPT ![r] = StartCleanup([IdleRun EXCEPT !.kind = "cleanup"])]
    /\ UNCHANGED <<orchVars, config, s3objects, now, cache, queue, activeCount, job,
                   staff, staffData>>

\* cleanup: getAllActivityKeys answers (an empty list on a redis error)
CleanupScan(r, ok) ==
    /\ run[r].pc = "cscan"
    /\ LET keys == IF ok THEN {i \in Ids : cache[i].kind # "missing"} ELSE {}
       IN  run' = [run EXCEPT ![r] =
               AfterReads([@ EXCEPT !.pc = "cread", !.toRead = Ascending(keys)])]
    /\ UNCHANGED <<orchVars, config, s3objects, now, cache, queue, activeCount, job,
                   nRuns, staff, staffData>>

\* cleanup: getActivityData of the next key answers (null on a redis error);
\* a photo that is a url of the bucket is added to referencedS3Urls
CleanupRead(r, ok) ==
    /\ run[r].pc = "cread"
    /\ LET activityData == IF ok THEN cache[Head(run[r].toRead)] ELSE Missing
           isS3Url == config.endpoint /\ activityData.photo.scheme = "s3"
       IN  run' = [run EXCEPT ![r] =
               AfterReads([@ EXCEPT
                   !.toRead = Tail(@),
                   !.referenced = IF isS3Url THEN @ \cup {activityData.photo}
                                  ELSE @])]
    /\ UNCHANGED <<orchVars, config, s3objects, now, cache, queue, activeCount, job,
                   nRuns, staff, staffData>>

\* variant: the test of the comparison loop is inverted
OrphanedObjectKeysInverted(s3ObjectKeys, referencedS3Urls) ==
    {o \in s3ObjectKeys :
        /\ ConstructS3Url(o) # NoUrl
        /\ ConstructS3Url(o) \in referencedS3Urls}

\* the comparison loop of the cleanup
\*   if (s3Url && !referencedS3Urls.has(s3Url)) orphanedObjectKeys.push(objectKey)
OrphanedObjectKeys(s3ObjectKeys, referencedS3Urls) ==
    {o \in s3ObjectKeys :
        /\ ConstructS3Url(o) # NoUrl
        /\ ConstructS3Url(o) \notin referencedS3Urls}

\* cleanup: listS3Objects answers (an empty list without a client or on an
\* error); the orphans are computed and deleteS3Objects is called
ListS3Objects(r, ok) ==
    /\ run[r].pc = "list"
    /\ LET s3ObjectKeys == IF config.s3 /\ ok THEN s3objects ELSE {}
           orphans == OrphanedObjectKeys(s3ObjectKeys, run[r].referenced)
           rr == [run[r] EXCEPT !.cleanOk = config.s3 /\ ok]
       IN  run' = [run EXCEPT ![r] =
               IF orphans = {} THEN EndCleanup(rr)
               ELSE [rr EXCEPT !.pc = "delete", !.orphaned = orphans]]
    /\ UNCHANGED <<orchVars, config, s3objects, now, cache, queue, activeCount, job,
                   nRuns, staff, staffData>>

\* variant: Promise.all in place of Promise.allSettled, a rejected delete
\* ends the batch before any other delete has taken effect
SettledAbortsOnRejection(objectKeysArray, failed) ==
    IF failed = {} THEN objectKeysArray ELSE {}

\* Promise.allSettled(batch.map(key => s3Client.delete(key))): every key is
\* submitted; the objects whose delete was not rejected are gone
Settled(objectKeysArray, failed) == objectKeysArray \ failed

\* cleanup: deleteS3Objects answers; the deletes of the keys in failed were
\* rejected (Promise.allSettled), the other objects are gone; the record of
\* the run remembers both sets
DeleteS3Objects(r, failed) ==
    /\ run[r].pc = "delete"
    /\ failed \subseteq run[r].orphaned
    /\ s3objects' = s3objects \ Settled(run[r].orphaned, failed)
    /\ run' = [run EXCEPT ![r] =
            EndCleanup([@ EXCEPT !.cleanOk = (failed = {}), !.failed = failed,
                                 !.deleted = Settled(run[r].orphaned, failed)])]
    /\ UNCHANGED <<orchVars, config, now, cache, queue, activeCount, job, nRuns,
                   staff, staffData>>

\* await Promise.all(promises) resolves: every job of the run has completed
PromiseAll(r) ==
    /\ run[r].pc = "waiting"
    /\ \A i \in Ids : job[<<r, i>>].pc \in {"none", "done"}
    /\ run' = [run EXCEPT ![r] = [IdleRun EXCEPT !.kind = run[r].kind, !.pc = "returned"]]
    /\ UNCHANGED <<orchVars, config, s3objects, now, cache, queue, activeCount, job, nRuns,
                   staff, staffData>>

\* variant: the exception leaves processAndCacheActivity
ProcessCatchRethrows(jr) == [jr EXCEPT !.pc = "rejected"]

\* processAndCacheActivity: catch (error) { errorData = { lastCheck, error };
\* await setActivityData(activityId, errorData); }
\* variant: the error marker is written without a lastCheck
ProcessCatchNoLastCheck(jr) == [jr EXCEPT !.pc = "set", !.rec = ErrorRecord(NoCheck)]

ProcessCatch(jr) == [jr EXCEPT !.pc = "set", !.rec = ErrorRecord(now)]

\* the job's getActivityData answers (null on a redis error) and the job
\* either calls processAndCacheActivity or completes; processAndCacheActivity
\* throws without credentials, else its first await is fetchActivityData
GetActivityData(j, ok) ==
    /\ job[j].pc = "get"
    /\ LET cachedData == IF ok THEN cache[j[2]] ELSE Missing
           needs == IF run[j[1]].kind = "init"
                    THEN InitNeedsProcessing(cachedData)
                    ELSE StaleNeedsProcessing(cachedData, run[j[1]].now)
           jr == [job[j] EXCEPT !.cachedData = cachedData]
       IN  IF needs
           THEN /\ job' = [job EXCEPT ![j] =
                       IF config.credentials THEN [jr EXCEPT !.pc = "fetching"]
                       ELSE ProcessCatch(jr)]
                /\ UNCHANGED <<queue, activeCount>>
           ELSE LimitNext(j)
    /\ UNCHANGED <<orchVars, config, s3objects, now, cache, run, nRuns, staff, staffData>>

JobFetchOutcomes == {"absent", "payload", "photo", "throw"}

\* processAndCacheActivity: fetchActivityData returned (absent or a payload);
\* structActivityData runs (it may throw); a data:image photo is uploaded
ProcessAndCacheActivity(j, out) ==
    /\ job[j].pc = "fetching"
    /\ job' = [job EXCEPT ![j] =
            CASE out = "absent"  -> [@ EXCEPT !.pc = "set", !.rec = EmptyRecord(now)]
              [] out = "payload" -> [@ EXCEPT !.pc = "set", !.rec = NormalRecord(now)]
              [] out = "photo"   -> [@ EXCEPT !.pc = "upload"]
              [] out = "throw"   -> ProcessCatch(@)]
    /\ UNCHANGED <<orchVars, config, s3objects, now, cache, queue, activeCount, run, nRuns,
                   staff, staffData>>

\* variant: a job whose upload gave no url caches an error marker
NoS3UrlCachedAsError(jr) == ProcessCatch(jr)

\* if (s3Url) ... else logger.warn: the photo stays the data:image string
NoS3Url(jr) == [jr EXCEPT !.pc = "set", !.rec = PhotoRecord(now, Base64Photo)]

\* uploadImageFromBase64 returned: the url of the new object, or null without
\* a client or after a caught failure (the photo stays as it is);
\* structuredActivity.lastCheck = new Date(); setActivityData is called
UploadImageFromBase64(j, ok) ==
    /\ job[j].pc = "upload"
    /\ IF config.s3 /\ ok
       THEN /\ s3objects' = s3objects \cup {j}
            /\ job' = [job EXCEPT ![j] =
                    IF ConstructS3Url(j) # NoUrl
                    THEN [@ EXCEPT !.pc = "set", !.rec = PhotoRecord(now, ConstructS3Url(j))]
                    ELSE NoS3Url(@)]
       ELSE /\ UNCHANGED s3objects
            /\ job' = [job EXCEPT ![j] = NoS3Url(@)]
    /\ UNCHANGED <<orchVars, config, now, cache, queue, activeCount, run, nRuns,
                   staff, staffData>>

\* setActivityData answers (a redis error is only logged); the job returns
\* and p-limit releases its slot
SetActivityData(j, ok) ==
    /\ job[j].pc = "set"
    /\ cache' = IF ok THEN [cache EXCEPT ![j[2]] = job[j].rec] ELSE cache
    /\ LimitNext(j)
    /\ UNCHANGED <<orchVars, config, s3objects, now, run, nRuns, staff, staffData>>

\* struct-staff.ts dropOddName: the blacklisted keys are deleted from the map
DropOddName(staffsMap) == staffsMap \ BlackList

\* struct-staff.ts updateStaffMap: the entries of the payload are set in the
\* map it is handed, which is then cleaned
UpdateStaffMap(staffsMap, lParms) == DropOddName(staffsMap \cup lParms)

\* struct-staff.ts structStaffData: the payload updates the module-level map
\* staffs, and that map is what it returns
StructStaffData(activityJson) == UpdateStaffMap(staff.staffs, activityJson.lParms)

\* needsUpdate of initializeOrUpdateStaffCache for the record read, with
\* updateIntervalMs ignored on forceUpdate
NeedsUpdateForcedOnly(forceUpdate, cachedStaffData, t) ==
    \/ forceUpdate
    \/ cachedStaffData.lastCheck = NoCheck

\* needsUpdate of initializeOrUpdateStaffCache for the record read, with
\* no refresh of a missing record unless forced
NeedsUpdateNotWhenMissing(forceUpdate, cachedStaffData, t) ==
    \/ forceUpdate
    \/ /\ cachedStaffData.kind # "missing"
       /\ \/ cachedStaffData.lastCheck = NoCheck
          \/ (t - cachedStaffData.lastCheck) > STAFF_UPDATE_INTERVAL_MINS

\* needsUpdate of initializeOrUpdateStaffCache for the record read
NeedsUpdate(forceUpdate, cachedStaffData, t) ==
    \/ forceUpdate
    \/ cachedStaffData.kind = "missing"
    \/ cachedStaffData.lastCheck = NoCheck
    \/ (t - cachedStaffData.lastCheck) > STAFF_UPDATE_INTERVAL_MINS

\* the record written when the fetch returned nothing, with an error marker
\* in place of the previous entries
BumpLastCheckDropsEntries(cachedStaffData, t) ==
    [kind |-> "record", entries |-> {}, lastCheck |-> t, error |-> TRUE]

\* the record written when the fetch returned nothing: the record read with
\* a new lastCheck
BumpLastCheck(cachedStaffData, t) == [cachedStaffData EXCEPT !.lastCheck = t]

\* export async function initializeOrUpdateStaffCache(forceUpdate)
InitializeOrUpdateStaffCache(force) ==
    /\ staff.pc \in {"idle", "returned"}
    /\ staff.calls < MaxStaffCalls
    /\ staff' = [IdleStaff EXCEPT !.pc = "get", !.forceUpdate = force,
                                  !.staffs = staff.staffs,
                                  !.absents = staff.absents,
                                  !.calls = staff.calls + 1]
    /\ UNCHANGED <<orchVars, config, s3objects, now, cache, queue, activeCount, job, run, nRuns,
                   staffData>>

\* getStaffData answers (null on a redis error); needsUpdate is computed; a
\* due refresh with credentials and a staff activity id calls
\* fetchActivityData directly
GetStaffData(ok) ==
    /\ staff.pc = "get"
    /\ LET cachedStaffData == IF ok THEN staffData ELSE NoStaffData
           needsUpdate == NeedsUpdate(staff.forceUpdate, cachedStaffData, now)
       IN  staff' = IF needsUpdate /\ config.credentials /\ config.staffId
                    THEN [staff EXCEPT !.pc = "fetching", !.now = now,
                                       !.readOk = ok,
                                       !.cachedStaffData = cachedStaffData]
                    ELSE [staff EXCEPT !.pc = "returned", !.now = now,
                                       !.readOk = ok,
                                       !.cachedStaffData = cachedStaffData]
    /\ UNCHANGED <<orchVars, config, s3objects, now, cache, queue, activeCount, job, run, nRuns,
                   staffData>>

\* fetchActivityData returned to the staff refresh: a payload is structured
\* and handed to setStaffData with a new lastCheck; on absent a previous
\* record with a lastCheck is handed to setStaffData with a new lastCheck
StaffFetchReturn(activityJson) ==
    /\ staff.pc = "fetching"
    /\ staff' =
         IF activityJson.present
         THEN [staff EXCEPT !.pc = "set", !.fetched = "payload",
                   !.lParms = activityJson.lParms,
                   !.staffs = StructStaffData(activityJson),
                   !.staffObject = StaffObject(StructStaffData(activityJson), now)]
         ELSE IF /\ staff.cachedStaffData.kind # "missing"
                 /\ staff.cachedStaffData.lastCheck # NoCheck
              THEN [staff EXCEPT !.pc = "set", !.fetched = "absent",
                        !.absents = @ + 1,
                        !.staffObject = BumpLastCheck(staff.cachedStaffData, now)]
              ELSE [staff EXCEPT !.pc = "returned", !.fetched = "absent",
                                 !.absents = @ + 1]
    /\ UNCHANGED <<orchVars, config, s3objects, now, cache, queue, activeCount, job, run, nRuns,
                   staffData>>

\* redis-service.ts setStaffData: the record is stored, or the error is
\* logged and nothing is stored
SetStaffData(ok) ==
    /\ staff.pc = "set"
    /\ staffData' = IF ok THEN staff.staffObject ELSE staffData
    /\ staff' = [staff EXCEPT !.pc = "returned",
                               !.wrote = IF ok THEN "stored" ELSE "failed"]
    /\ UNCHANGED <<orchVars, config, s3objects, now, cache, queue, activeCount, job, run, nRuns>>

\* time passes
Tick ==
    /\ now < StartTime + MaxTicks
    /\ now' = now + 1
    /\ UNCHANGED <<orchVars, config, s3objects, cache, engVars>>

\* ------------------------------------------------------------------------
\* Specification of the orchestrator: concurrent fetchActivityData calls
\* ------------------------------------------------------------------------
OrchInit ==
    /\ inMemoryCookie = NoCookie
    /\ cookieFile \in {NoCookie, OldCookie}
    /\ nextTok = OldCookie + 1
    /\ loginForm = NoLoginForm
    /\ nCalls = 0
    /\ call = [c \in Callers |-> IdleCall]
    /\ now = 0
    /\ cache = [i \in Ids |-> Missing]
    /\ EngineIdle
    /\ staffData = NoStaffData
    /\ s3objects = {}
    /\ config = AllConfigured

OrchNext ==
    \E c \in Callers :
        \/ \E force \in BOOLEAN : FetchActivityData(c, RequestedId, force)
        \/ \E ok \in BOOLEAN : ReadFile(c, ok)
        \/ LoadCachedCookie(c)
        \/ \E ok \in BOOLEAN : TestCookieValidity(c, ok)
        \/ \E ok \in BOOLEAN : ClearCookieCache(c, ok)
        \/ \E out \in {"ok", "null", "throw"} : GetSessionId(c, out)
        \/ \E out \in {"ok", "null", "throw"} : GetMSAUTH(c, out)
        \/ \E ok \in BOOLEAN : SaveCookieToCache(c, ok)
        \/ \E out \in FetchOutcomes : GetActivityDetailsRaw(c, out)
        \/ Backoff(c)
        \/ FetchProcessAndStoreActivity(c)

OrchSpec == OrchInit /\ [][OrchNext]_vars

\* ------------------------------------------------------------------------
\* Properties of fetchActivityData (checked under OrchSpec)
\* ------------------------------------------------------------------------
Done(c) == call[c].pc = "done"

\* C1: one call of fetchActivityData calls getActivityDetailsRaw at most
\* twice and getCompleteCookies at most twice, whatever the retry loop of
\* the Fetch Client does.
C1_AtMostTwoFetchesAndLogins ==
    \A c \in Callers :
        /\ Count(call[c].trace, "fetch") <= 2
        /\ Count(call[c].trace, "login") <= 2

C1_Witness ==
    \E c \in Callers :
        /\ Done(c)
        /\ Count(call[c].trace, "fetch") = 2
        /\ Count(call[c].trace, "login") = 2

\* the calls of the scenario "cached token probes valid, the fetch is
\* rejected with a 4xx, one clear + re-login + re-fetch, rejected again"
RejectedTwice ==
    <<"probeValid", "fetch", "fetchAuth", "clear", "login", "save", "fetch", "fetchAuth">>

\* C2: when the cached token probes valid and the first fetch is rejected
\* with a 4xx, exactly one clear + re-login + re-fetch happens; when the
\* re-fetch is rejected too, the call returns absent and both tiers of the
\* credential store end empty.
C2_StoreEndsEmpty ==
    \A c \in Callers :
        (/\ call[c].loaded # NoCookie
         /\ call[c].pc \in {"fetch", "backoff", "done"}
         /\ Count(call[c].trace, "fetchAuth") >= 1
         /\ call[c].trace[1] = "probeValid")
        => /\ Count(call[c].trace, "clear") = 1
           /\ Count(call[c].trace, "login") = 1
           /\ (Done(c) /\ call[c].trace = RejectedTwice
                 => /\ call[c].result = "absent"
                    /\ inMemoryCookie = NoCookie
                    /\ cookieFile = NoCookie)

\* C3: a call with forceLogin = true discards the token of the credential
\* store (clearCookieCache) before it attempts the login, whether or not the
\* login succeeds, and never probes or uses the cached token.
C3_ForceLoginDiscardsToken ==
    \A c \in Callers :
        (call[c].forceLogin /\ call[c].storeAtStart /\ call[c].trace # << >>)
        => /\ call[c].trace[1] = "clear"
           /\ Count(call[c].trace, "probeValid") = 0
           /\ Count(call[c].trace, "probeInvalid") = 0
           /\ call[c].loaded = NoCookie

\* C4: fetchActivityData never raises to its caller: every call completes
\* with a parsed payload or with absent, whatever fails on the way.
C4_NeverRaises ==
    \A c \in Callers :
        /\ call[c].pc # "raised"
        /\ Done(c) => call[c].result \in {"payload", "absent"}

C4_Witness ==
    \E c \in Callers :
        /\ Done(c)
        /\ call[c].result = "absent"
        /\ call[c].trace[Len(call[c].trace)] = "fetchErr"

\* C5: with an empty credential store and a failing login, the call returns
\* absent without any Fetch Client call, and no step of the orchestrator
\* writes a cache entry.
C5_State ==
    \A c \in Callers :
        (/\ Done(c)
         /\ ~call[c].storeAtStart
         /\ call[c].loaded = NoCookie
         /\ Len(call[c].trace) >= 2
         /\ call[c].trace[1] = "login"
         /\ call[c].trace[2] = "loginFail")
        => /\ call[c].result = "absent"
           /\ Count(call[c].trace, "fetch") = 0

C5_Frame ==
    \A c \in Callers :
        (call[c].pc # "done" /\ call'[c] # call[c]) => cache' = cache

C5_LoginFailureNoFetchNoCacheWrite == [](C5_State) /\ [][C5_Frame]_vars

C5_Witness ==
    \E c \in Callers :
        /\ Done(c)
        /\ ~call[c].storeAtStart
        /\ call[c].trace = <<"login", "loginFail">>
        /\ call[c].result = "absent"

C15_EmptyOnlyOnNoSuchRecord ==
    [][\A c \in Callers :
          (/\ Done(c)
           /\ call'[c].pc = "idle"
           /\ cache'[call[c].activityId].kind = "api-fetch-empty")
          => /\ call[c].trace # << >>
             /\ call[c].trace[Len(call[c].trace)] = "fetchNull"]_vars

\* ------------------------------------------------------------------------
\* Specification of the reconciliation engine: overlapping runs, one limiter
\* ------------------------------------------------------------------------
\* the entries redis may hold when the process starts
InitialEntries ==
    {Missing, EmptyObj, NoCheckRecord, NormalRecord(0), EmptyRecord(0), ErrorRecord(0)}

EngineInit ==
    /\ inMemoryCookie = NoCookie
    /\ cookieFile = NoCookie
    /\ nextTok = OldCookie + 1
    /\ loginForm = NoLoginForm
    /\ nCalls = 0
    /\ call = [c \in Callers |-> IdleCall]
    /\ now = StartTime
    /\ cache \in [Ids -> {NormalRecord(StartTime), ErrorRecord(StartTime)}]
    /\ EngineIdle
    /\ staffData = NoStaffData
    /\ s3objects = {}
    /\ config = NoS3Configured

JobStep ==
    \E j \in JobIds :
        \/ \E ok \in BOOLEAN : GetActivityData(j, ok)
        \/ \E out \in JobFetchOutcomes : ProcessAndCacheActivity(j, out)
        \/ \E ok \in BOOLEAN : UploadImageFromBase64(j, ok)
        \/ \E ok \in BOOLEAN : SetActivityData(j, ok)

CleanupStep ==
    \E r \in Runs :
        \/ \E ok \in BOOLEAN : CleanupScan(r, ok)
        \/ \E ok \in BOOLEAN : CleanupRead(r, ok)
        \/ \E ok \in BOOLEAN : ListS3Objects(r, ok)
        \/ \E failed \in SUBSET run[r].orphaned : DeleteS3Objects(r, failed)

RunStep ==
    \E r \in Runs :
        \/ \E ok \in BOOLEAN : GetAllActivityKeys(r, ok)
        \/ PromiseAll(r)

StaffStep ==
    \/ \E ok \in BOOLEAN : GetStaffData(ok)
    \/ \E activityJson \in StaffPayloads \cup {AbsentJson} : StaffFetchReturn(activityJson)
    \/ \E ok \in BOOLEAN : SetStaffData(ok)

\* the cleanup without an S3 client: listS3Objects answers [] and
\* deleteS3Objects is never reached
CleanupStepNoS3 ==
    \E r \in Runs :
        \/ \E ok \in BOOLEAN : CleanupScan(r, ok)
        \/ \E ok \in BOOLEAN : CleanupRead(r, ok)
        \/ \E ok \in BOOLEAN : ListS3Objects(r, ok)

EngineNext ==
    \/ \E r \in Runs : InitializeClubCache(r)
    \/ \E r \in Runs : UpdateStaleClubs(r)
    \/ LimitStart
    \/ JobStep
    \/ RunStep
    \/ CleanupStepNoS3

EngineSpec == EngineInit /\ [][EngineNext]_vars

\* the engine with the staff aggregate refresh timer running as well
PoolNext ==
    \/ EngineNext
    \/ \E force \in BOOLEAN : InitializeOrUpdateStaffCache(force)
    \/ StaffStep

\* index.ts performBackgroundTasks when the timers are set: the forced
\* staff refresh of the process start has returned and found nothing
PoolInit ==
    /\ inMemoryCookie = NoCookie
    /\ cookieFile = NoCookie
    /\ nextTok = OldCookie + 1
    /\ loginForm = NoLoginForm
    /\ nCalls = 0
    /\ call = [c \in Callers |-> IdleCall]
    /\ now = StartTime
    /\ cache \in [Ids -> {NormalRecord(StartTime), ErrorRecord(StartTime)}]
    /\ queue = << >>
    /\ activeCount = 0
    /\ job = [j \in JobIds |-> NoJob]
    /\ run = [r \in Runs |-> IdleRun]
    /\ nRuns = 0
    /\ staff = [IdleStaff EXCEPT !.pc = "returned", !.forceUpdate = TRUE,
                                 !.now = StartTime, !.fetched = "absent",
                                 !.absents = 1, !.calls = 1]
    /\ staffData = NoStaffData
    /\ s3objects = {}
    /\ config = NoS3Configured

PoolSpec == PoolInit /\ [][PoolNext]_vars

\* ------------------------------------------------------------------------
\* Specification of bulk population run again and again, in succession
\* (index.ts performBackgroundTasks: await initializeClubCache())
\* ------------------------------------------------------------------------
PopulateInit ==
    /\ inMemoryCookie = NoCookie
    /\ cookieFile = NoCookie
    /\ nextTok = OldCookie + 1
    /\ loginForm = NoLoginForm
    /\ nCalls = 0
    /\ call = [c \in Callers |-> IdleCall]
    /\ now = StartTime
    /\ cache \in [Ids -> InitialEntries]
    /\ EngineIdle
    /\ staffData = NoStaffData
    /\ s3objects = {}
    /\ config = NoS3Configured

\* the next population starts when the previous one has returned
PerformBackgroundTasks(r) ==
    /\ IF r = 1 THEN TRUE ELSE run[r - 1].pc = "returned"
    /\ InitializeClubCache(r)

PopulateNext ==
    \/ \E r \in Runs : PerformBackgroundTasks(r)
    \/ LimitStart
    \/ JobStep
    \/ \E r \in Runs : PromiseAll(r)
    \/ Tick

PopulateSpec == PopulateInit /\ [][PopulateNext]_vars

\* every network and storage call eventually returns, the event loop runs
\* every continuation that is ready
PopulateFairSpec ==
    /\ PopulateSpec
    /\ WF_vars(LimitStart)
    /\ \A j \in JobIds :
          /\ WF_vars(\E ok \in BOOLEAN : GetActivityData(j, ok))
          /\ WF_vars(\E out \in JobFetchOutcomes : ProcessAndCacheActivity(j, out))
          /\ WF_vars(\E ok \in BOOLEAN : UploadImageFromBase64(j, ok))
          /\ WF_vars(\E ok \in BOOLEAN : SetActivityData(j, ok))
    /\ \A r \in Runs : WF_vars(PromiseAll(r))

\* ------------------------------------------------------------------------
\* Specification of the orphan cleanup run on its own, with no entity job
\* (index.ts performBackgroundTasks: await cleanupOrphanedS3Images())
\* ------------------------------------------------------------------------
\* the object an earlier process run uploaded for activity i
OldObject(i) == <<0, i>>
OldObjects == {OldObject(i) : i \in Ids}

\* the objects of the bucket that some cached record references
ReferencedObjects == {o \in OldObjects : \E i \in Ids : cache[i].photo = S3Url(o)}

\* records with and without a photo in the bucket; every referenced object
\* exists, other objects may exist as well
CleanupInit ==
    /\ inMemoryCookie = NoCookie
    /\ cookieFile = NoCookie
    /\ nextTok = OldCookie + 1
    /\ loginForm = NoLoginForm
    /\ nCalls = 0
    /\ call = [c \in Callers |-> IdleCall]
    /\ now = StartTime
    /\ config = AllConfigured
    /\ cache \in [Ids -> {NormalRecord(0), EmptyRecord(0)}
                           \cup {PhotoRecord(0, S3Url(o)) : o \in OldObjects}]
    /\ \A i \in Ids : cache[i].photo \in {NoPhoto, S3Url(OldObject(i))}
    /\ s3objects \in SUBSET OldObjects
    /\ ReferencedObjects \subseteq s3objects
    /\ EngineIdle
    /\ staffData = NoStaffData

\* a cleanup is started when the previous one has returned
NextCleanup(r) ==
    /\ IF r = 1 THEN TRUE ELSE run[r - 1].pc = "returned"
    /\ CleanupOrphanedS3Images(r)

CleanupNext ==
    \/ \E r \in Runs : NextCleanup(r)
    \/ CleanupStep

CleanupSpec == CleanupInit /\ [][CleanupNext]_vars

\* bulk population with the bucket configured, with and without the
\* credentials of the portal
JobInit ==
    /\ inMemoryCookie = NoCookie
    /\ cookieFile = NoCookie
    /\ nextTok = OldCookie + 1
    /\ loginForm = NoLoginForm
    /\ nCalls = 0
    /\ call = [c \in Callers |-> IdleCall]
    /\ now = StartTime
    /\ cache \in [Ids -> {Missing, NormalRecord(0), ErrorRecord(0)}]
    /\ EngineIdle
    /\ staffData = NoStaffData
    /\ s3objects = {}
    /\ config \in {AllConfigured, NoCredentials}

JobSpec == JobInit /\ [][PopulateNext]_vars

\* bulk population with a cache store that answers every call
JobStepOk ==
    \E j \in JobIds :
        \/ GetActivityData(j, TRUE)
        \/ \E out \in JobFetchOutcomes : ProcessAndCacheActivity(j, out)
        \/ \E ok \in BOOLEAN : UploadImageFromBase64(j, ok)
        \/ SetActivityData(j, TRUE)

PopulateOkNext ==
    \/ \E r \in Runs : PerformBackgroundTasks(r)
    \/ LimitStart
    \/ JobStepOk
    \/ \E r \in Runs : PromiseAll(r)
    \/ Tick

PopulateOkSpec == PopulateInit /\ [][PopulateOkNext]_vars

\* ------------------------------------------------------------------------
\* Specification of the staleness sweep run by the timer, one sweep after
\* the other (index.ts: setInterval(updateStaleClubs, ...))
\* ------------------------------------------------------------------------
\* the first id holds a stale record with a photo in the bucket, the other
\* ids hold a fresh record, an error marker or {}
SweepInit ==
    /\ inMemoryCookie = NoCookie
    /\ cookieFile = NoCookie
    /\ nextTok = OldCookie + 1
    /\ loginForm = NoLoginForm
    /\ nCalls = 0
    /\ call = [c \in Callers |-> IdleCall]
    /\ now = StartTime
    /\ config = AllConfigured
    /\ s3objects = {OldObject(MIN_ACTIVITY_ID_SCAN)}
    /\ \E e \in {NormalRecord(StartTime), ErrorRecord(StartTime), EmptyObj} :
          cache = [i \in Ids |->
                      IF i = MIN_ACTIVITY_ID_SCAN
                      THEN PhotoRecord(0, S3Url(OldObject(i))) ELSE e]
    /\ EngineIdle
    /\ staffData = NoStaffData

\* the timer fires when the previous sweep has returned
NextSweep(r) ==
    /\ IF r = 1 THEN TRUE ELSE run[r - 1].pc = "returned"
    /\ UpdateStaleClubs(r)

SweepNext ==
    \/ \E r \in Runs : NextSweep(r)
    \/ LimitStart
    \/ JobStep
    \/ RunStep
    \/ CleanupStep
    \/ Tick

SweepSpec == SweepInit /\ [][SweepNext]_vars

\* the sweep when the cache store and the bucket answer every call
RunStepOk ==
    \E r \in Runs :
        \/ GetAllActivityKeys(r, TRUE)
        \/ PromiseAll(r)

CleanupStepOk ==
    \E r \in Runs :
        \/ CleanupScan(r, TRUE)
        \/ CleanupRead(r, TRUE)
        \/ ListS3Objects(r, TRUE)
        \/ DeleteS3Objects(r, {})

SweepOkNext ==
    \/ \E r \in Runs : NextSweep(r)
    \/ LimitStart
    \/ JobStepOk
    \/ RunStepOk
    \/ CleanupStepOk
    \/ Tick

SweepOkSpec == SweepInit /\ [][SweepOkNext]_vars

\* ------------------------------------------------------------------------
\* Properties of the reconciliation engine
\* ------------------------------------------------------------------------
\* C7: under every interleaving of bulk population and staleness sweeps,
\* overlapping ones included, at most CONCURRENT_API_CALLS entity jobs
\* submitted through the limiter are in flight.
C7_InFlightJobsBounded == Cardinality(InFlightJobs) <= CONCURRENT_API_CALLS

C7_Witness ==
    /\ Cardinality(InFlightJobs) = CONCURRENT_API_CALLS
    /\ queue # << >>
    /\ \E r1, r2 \in Runs :
          /\ r1 # r2
          /\ run[r1].kind \in {"init", "sweep"}
          /\ run[r2].kind \in {"init", "sweep"}
          /\ \E i \in Ids : job[<<r1, i>>].pc \in RunningPcs
          /\ \E i \in Ids : job[<<r2, i>>].pc = "queued"

\* the fetchActivityData calls of the engine that are running
EngineFetches ==
    Cardinality({j \in JobIds : job[j].pc = "fetching"})
        + (IF staff.pc = "fetching" THEN 1 ELSE 0)

\* C8: bulk population, staleness sweep and staff refresh share one bounded
\* pool: at most CONCURRENT_API_CALLS fetchActivityData calls of the engine
\* run at the same time.
C8_EngineFetchesBounded == EngineFetches <= CONCURRENT_API_CALLS

\* a job holds a slot / has given it back
Holds(j) == job[j].pc \in RunningPcs
Completed(j) == job[j].pc = "done"

C9_ReturnsAfterAllJobs ==
    \A r \in Runs :
        run[r].pc = "returned" => \A i \in Ids : Completed(<<r, i>>)

C9_SlotReleased == \A j \in JobIds : Holds(j) ~> Completed(j)

C9_Returns == \A r \in Runs : (run[r].pc = "waiting") ~> (run[r].pc = "returned")

\* C9: every slot granted to an entity job is released in the end, also
\* when the job fails; initializeClubCache returns only when all the jobs it
\* submitted have completed, and it does return when every call returns.
C9_SlotsReleasedAndPopulateReturns ==
    /\ [](C9_ReturnsAfterAllJobs)
    /\ C9_SlotReleased
    /\ C9_Returns

\* a run has returned although one of its jobs cached an error marker
C9_Witness ==
    \E r \in Runs :
        /\ run[r].pc = "returned"
        /\ \E i \in Ids : cache[i].error /\ cache[i].lastCheck > 0
        /\ activeCount = 0

\* an entry that carries a lastCheck and no error marker
Valid(e) ==
    /\ e.kind \notin {"missing", "emptyobj"}
    /\ e.lastCheck # NoCheck
    /\ ~e.error

SecondRun == \E r \in Runs : r >= 2 /\ run[r].pc = "waiting"

\* C10 (as claimed): while a second population runs in succession of the
\* first, no entry that carries a lastCheck and no error marker is changed.
C10_Original ==
    [][\A i \in Ids :
          (SecondRun /\ Valid(cache[i])) => cache'[i] = cache[i]]_vars

\* C10 (amended): while a second population runs in succession of the
\* first, an entry that carries a lastCheck and no error marker is changed
\* only by a job whose own read of that entry failed (getActivityData
\* returned null); a job re-fetches an id only when the cachedData it read
\* is null, an empty object, without lastCheck or marked errored.
C10_Touches ==
    \A j \in JobIds :
        job[j].pc \in {"fetching", "upload", "set"} => ~Valid(job[j].cachedData)

C10_Frame ==
    \A i \in Ids :
        (SecondRun /\ Valid(cache[i]) /\ cache'[i] # cache[i])
        => \E r \in Runs :
              /\ job[<<r, i>>].pc = "set"
              /\ job[<<r, i>>].cachedData = Missing

C10_IdempotentUnlessReadFails == [](C10_Touches) /\ [][C10_Frame]_vars

\* the second run has returned and left a valid entry of an earlier time
C10_Witness ==
    /\ run[2].pc = "returned"
    /\ \E i \in Ids : Valid(cache[i]) /\ cache[i].lastCheck < now
    /\ \E i \in Ids : cache[i].lastCheck = now

\* ------------------------------------------------------------------------
\* Properties of bulk population with a working cache store (PopulateOkSpec)
\* ------------------------------------------------------------------------
\* every id of the range has an entry that carries a lastCheck
AllChecked ==
    \A i \in Ids : cache[i].kind # "missing" /\ cache[i].lastCheck # NoCheck

C11_Populated ==
    \A r \in Runs :
        (run[r].kind = "init" /\ run[r].pc = "returned") => AllChecked

C11_Submits ==
    /\ \A r \in Runs :
          (run[r].kind = "none" /\ run'[r].kind = "init")
          => \A i \in Ids : job'[<<r, i>>].pc = "queued"
    /\ \A j \in JobIds :
          (/\ job[j].pc = "get"
           /\ job'[j] # job[j]
           /\ ~Valid(cache[j[2]]))
          => job'[j].pc \in {"fetching", "set"}

\* C11: initializeClubCache submits a job for every id of the range, the job
\* of an id whose entry is missing, empty, without lastCheck or marked
\* errored goes on to fetch and store, and when the cache store answers
\* every call each id of the range has an entry with a lastCheck once
\* initializeClubCache has returned.
C11_PopulateCoversRange == [](C11_Populated) /\ [][C11_Submits]_vars

\* a population has returned after it processed every id of the range
C11_Witness ==
    /\ run[1].pc = "returned"
    /\ \A i \in Ids : cache[i].lastCheck >= StartTime
    /\ \E i \in Ids : cache[i].error

\* ------------------------------------------------------------------------
\* Properties of the staleness sweep (SweepSpec)
\* ------------------------------------------------------------------------
\* sweep r is under way
Sweeping(r) == run[r].kind = "sweep" /\ run[r].pc \notin {"idle", "returned"}

\* entry e is older / younger than the threshold at the start of sweep r
Older(e, r) == (run[r].now - e.lastCheck) > CLUB_UPDATE_INTERVAL_MINS
Younger(e, r) == (run[r].now - e.lastCheck) < CLUB_UPDATE_INTERVAL_MINS

\* C12 (as claimed): while a sweep is under way, an entry with no error
\* marker whose lastCheck is younger than the threshold at the sweep's start
\* is never changed.
C12_Original ==
    [][\A r \in Runs : \A i \in Ids :
          (Sweeping(r) /\ Valid(cache[i]) /\ Younger(cache[i], r))
          => cache'[i] = cache[i]]_vars

\* a job of a sweep goes on to processAndCacheActivity only with a
\* cachedData that is null, {}, errored or older than the threshold
C12_Touches ==
    \A j \in JobIds :
        (run[j[1]].kind = "sweep" /\ job[j].pc \in {"fetching", "upload", "set"})
        => \/ job[j].cachedData.kind \in {"missing", "emptyobj"}
           \/ job[j].cachedData.error
           \/ Older(job[j].cachedData, j[1])

\* a younger entry without error marker changes only under a job whose read
\* of it returned null
C12_Frame ==
    \A r \in Runs : \A i \in Ids :
        (Sweeping(r) /\ Valid(cache[i]) /\ Younger(cache[i], r)
           /\ cache'[i] # cache[i])
        => /\ job[<<r, i>>].pc = "set"
           /\ job[<<r, i>>].cachedData = Missing

\* the job that reads an older entry without error marker refreshes it
C12_Refreshes ==
    \A j \in JobIds :
        (/\ run[j[1]].kind = "sweep"
         /\ job[j].pc = "get"
         /\ job'[j] # job[j]
         /\ Valid(cache[j[2]])
         /\ Older(cache[j[2]], j[1]))
        => job'[j].pc \in {"fetching", "set"}

\* C12 (amended): in a staleness sweep the job of an entry with no error
\* marker refreshes it when its lastCheck is older than the threshold at the
\* sweep's start; an entry younger than the threshold is left untouched
\* unless the job's read of it fails (getActivityData returns null), in
\* which case it is fetched and rewritten like a missing entry.
C12_StaleRefreshedYoungKeptUnlessReadFails ==
    [](C12_Touches) /\ [][C12_Frame /\ C12_Refreshes]_vars

\* a sweep waits for its last job: it has rewritten an entry, and an entry
\* checked before the sweep began is still there
C12_Witness ==
    \E r \in Runs :
        /\ run[r].kind = "sweep"
        /\ run[r].pc = "waiting"
        /\ \A i \in Ids : job[<<r, i>>].pc = "done"
        /\ \E i \in Ids : Valid(cache[i]) /\ cache[i].lastCheck < run[r].now
        /\ \E i \in Ids : Valid(cache[i]) /\ cache[i].lastCheck >= run[r].now
                          /\ cache[i].photo # S3Url(OldObject(i))

\* the job of a sweep that reads an errored entry or {} goes on to
\* processAndCacheActivity, whatever the age of the entry
C13_Refreshes ==
    \A j \in JobIds :
        (/\ run[j[1]].kind = "sweep"
         /\ job[j].pc = "get"
         /\ job'[j] # job[j]
         /\ \/ cache[j[2]].error
            \/ cache[j[2]].kind \in {"missing", "emptyobj"})
        => job'[j].pc \in {"fetching", "set"}

\* a job calls fetchActivityData once, right after its read of the cache,
\* and a job that wrote a record completes: nothing is retried in place
C13_NoRetryInPlace ==
    \A j \in JobIds :
        /\ (job'[j].pc = "fetching" /\ job[j].pc # "fetching") => job[j].pc = "get"
        /\ (job[j].pc = "set" /\ job'[j] # job[j]) => job'[j].pc = "done"

C14_Original ==
    \A j \in JobIds :
        (job[j].pc = "set" /\ job[j].rec.photo = Base64Photo) => job[j].rec.error

\* { lastCheck, error } and nothing else
IsErrorMarker(e) ==
    /\ e.kind = "error"
    /\ e.error
    /\ e.lastCheck # NoCheck
    /\ e.photo = NoPhoto

\* no exception leaves a job; without credentials every job that processes
\* its entity caches an error marker and never calls fetchActivityData
C14_Caught ==
    \A j \in JobIds :
        /\ job[j].pc # "rejected"
        /\ ~config.credentials =>
              /\ job[j].pc \notin {"fetching", "upload"}
              /\ job[j].pc = "set" => IsErrorMarker(job[j].rec)
        /\ (job[j].pc = "set" /\ job[j].rec.error) => IsErrorMarker(job[j].rec)

\* the job that caught an exception completes, its step writes nothing but
\* the error marker of its own entity and touches no sibling (the slot it
\* gives back may start the job at the head of the queue)
C14_Isolated ==
    \A j \in JobIds :
        (job[j].pc = "set" /\ job[j].rec.error /\ job'[j] # job[j])
        => /\ job'[j].pc = "done"
           /\ cache'[j[2]] \in {cache[j[2]], job[j].rec}
           /\ \A i \in Ids \ {j[2]} : cache'[i] = cache[i]
           /\ \A k \in JobIds \ {j} :
                 \/ job'[k] = job[k]
                 \/ job[k].pc = "queued" /\ job'[k].pc = "get"
           /\ run' = run

\* C14 (amended): an exception inside an entity job (missing credentials, a
\* failure of fetch-and-normalize) is caught by the job, which overwrites the
\* entity's entry with an error marker of lastCheck and error and completes
\* normally, without effect on sibling jobs or on the run; a failed upload
\* raises no exception in the job: the record is cached without error marker.
C14_JobCatchesAndCachesErrorMarker == [](C14_Caught) /\ [][C14_Isolated]_vars

\* a population has returned: one job cached an error marker, a sibling a
\* structured record
C14_Witness ==
    /\ run[1].pc = "returned"
    /\ config.credentials
    /\ \E i, k \in Ids :
          /\ IsErrorMarker(cache[i]) /\ cache[i].lastCheck >= StartTime
          /\ cache[k].kind = "normal" /\ cache[k].lastCheck >= StartTime

\* ------------------------------------------------------------------------
\* Properties of the orphan cleanup
\* ------------------------------------------------------------------------
\* C16: a cleanup run with no concurrent cache write deletes only objects
\* whose url is the photo of no cached record: an object that a cached
\* record references is never deleted.
C16_ReferencedNeverDeleted ==
    [][\A o \in s3objects :
          (\E i \in Ids : cache[i].photo = ConstructS3Url(o)) => o \in s3objects']_vars

\* a confirmed-empty record and an error marker carry no photo
C17_NoPhoto ==
    \A i \in Ids :
        cache[i].kind \in {"api-fetch-empty", "error"} => cache[i].photo = NoPhoto

\* the record of an entity with a photo in the bucket is overwritten by a
\* confirmed-empty record or an error marker: its object is unreferenced
C17_Dereferenced ==
    \A i \in Ids :
        (/\ cache[i].photo.scheme = "s3"
         /\ cache[i].photo.key \in s3objects
         /\ cache'[i].kind \in {"api-fetch-empty", "error"})
        => cache[i].photo.key \in Unreferenced'

\* a cleanup returns after listS3Objects and deleteS3Objects answered
\* without an error: the objects that were unreferenced when it began are
\* gone
C17_Deleted ==
    \A r \in Runs :
        (/\ run[r].pc \in {"list", "delete"}
         /\ run'[r].pc \notin {"list", "delete"}
         /\ run'[r].cleanOk)
        => run[r].orphans0 \cap s3objects' = {}

C18_NoRecordPointsAtDeletedObject ==
    \A i \in Ids :
        cache[i].photo.scheme = "s3" => cache[i].photo.key \in s3objects

\* ------------------------------------------------------------------------
\* Specification of the staff aggregate refresh (index.ts
\* performBackgroundTasks: initializeOrUpdateStaffCache(true), then the
\* timer's initializeOrUpdateStaffCache(false)), over every configuration
\* of the credentials and the staff activity id
\* ------------------------------------------------------------------------
StaffConfigs == [credentials : BOOLEAN, staffId : BOOLEAN, s3 : {FALSE}, endpoint : {FALSE}]

InitialStaffData ==
    {NoStaffData, StaffObject({"T1"}, NoCheck), StaffObject({"T1"}, 0),
     StaffObject({"T1"}, StartTime)}

StaffInit ==
    /\ inMemoryCookie = NoCookie
    /\ cookieFile = NoCookie
    /\ nextTok = OldCookie + 1
    /\ loginForm = NoLoginForm
    /\ nCalls = 0
    /\ call = [c \in Callers |-> IdleCall]
    /\ now = StartTime
    /\ cache = [i \in Ids |-> Missing]
    /\ EngineIdle
    /\ staffData \in InitialStaffData
    /\ s3objects = {}
    /\ config \in StaffConfigs

StaffNext ==
    \/ \E force \in BOOLEAN : InitializeOrUpdateStaffCache(force)
    \/ StaffStep
    \/ Tick

StaffSpec == StaffInit /\ [][StaffNext]_vars

\* the staff refresh with a cache store that answers every call
StaffStepOk ==
    \/ GetStaffData(TRUE)
    \/ \E activityJson \in StaffPayloads \cup {AbsentJson} : StaffFetchReturn(activityJson)
    \/ SetStaffData(TRUE)

StaffOkNext ==
    \/ \E force \in BOOLEAN : InitializeOrUpdateStaffCache(force)
    \/ StaffStepOk
    \/ Tick

StaffOkSpec == StaffInit /\ [][StaffOkNext]_vars

\* the activation has decided whether to fetch, and has not written yet
Decided == staff.pc \in {"fetching", "returned"} /\ staff.fetched = "none" /\ staff.calls > 0
\* a staff record with a lastCheck
HasLastCheck(staffObject) == staffObject.kind # "missing" /\ staffObject.lastCheck # NoCheck
\* the record in the store is older than the staff staleness threshold
StaffStale == (staff.now - staffData.lastCheck) > STAFF_UPDATE_INTERVAL_MINS
Configured == config.credentials /\ config.staffId

\* the claim as stated: the fetch happens exactly when configured and
\* forced, no record with a lastCheck, or the record is stale
C19_Original ==
    Decided =>
        (staff.pc = "fetching" <=>
            /\ Configured
            /\ \/ staff.forceUpdate
               \/ ~HasLastCheck(staffData)
               \/ StaffStale)

C19_Decision ==
    Decided =>
        (staff.pc = "fetching" <=>
            /\ Configured
            /\ \/ staff.forceUpdate
               \/ ~staff.readOk
               \/ ~HasLastCheck(staffData)
               \/ StaffStale)

\* an activation that made no upstream call leaves the staff record alone
C19_WritesNothing ==
    (staff.fetched = "none" /\ staff'.fetched = "none") => staffData' = staffData

\* C19: initializeOrUpdateStaffCache fetches the staff aggregate exactly
\* when credentials and the staff id are configured and force is true, or
\* no staff record with a lastCheck exists, or the record's lastCheck is
\* older than the staff staleness threshold, or the read of the staff
\* record failed; otherwise it makes no upstream call and writes nothing.
C19_FetchesExactlyWhenDueOrReadFails ==
    /\ [](C19_Decision)
    /\ [][C19_WritesNothing]_vars

\* a refresh not forced, of a record read without an error that is older
\* than the threshold, fetches; and one of a fresh record has returned
C19_Witness ==
    /\ staff.pc = "fetching"
    /\ ~staff.forceUpdate
    /\ staff.readOk
    /\ HasLastCheck(staffData)
    /\ StaffStale

\* the fetch returned nothing to an activation that read a previous record
\* with a lastCheck
AbsentWithPrevious == staff.fetched = "absent" /\ HasLastCheck(staff.cachedStaffData)

\* the record handed to setStaffData is the record read with a new lastCheck
C20_Handed ==
    (staff.pc = "set" /\ AbsentWithPrevious) =>
        /\ staff.staffObject.kind = "record"
        /\ staff.staffObject.entries = staffData.entries
        /\ ~staff.staffObject.error
        /\ staff.staffObject.lastCheck >= staff.now
        /\ staff.staffObject.lastCheck <= now

\* setStaffData was called before the activation returned
C20_Rewrites ==
    (staff.pc = "returned" /\ AbsentWithPrevious) => staff.wrote # "none"

\* the store after setStaffData differs from the store before in lastCheck
C20_OnlyLastCheck ==
    (staff.pc = "set" /\ AbsentWithPrevious /\ staff'.wrote = "stored") =>
        /\ staffData' = [staffData EXCEPT !.lastCheck = staff.staffObject.lastCheck]
        /\ staffData.lastCheck <= staffData'.lastCheck

\* C20: when a staff refresh is due and the upstream fetch returns absent
\* while a previous staff record with lastCheck was read, the record is
\* rewritten with only its lastCheck changed to the current time: every
\* staff entry of the previous record is preserved and no error marker is
\* written.
C20_AbsentBumpsOnlyLastCheck ==
    /\ [](C20_Handed /\ C20_Rewrites)
    /\ [][C20_OnlyLastCheck]_vars

C20_Witness ==
    /\ staff.pc = "returned"
    /\ AbsentWithPrevious
    /\ staff.wrote = "stored"
    /\ staffData.entries = staff.cachedStaffData.entries
    /\ staffData.entries # {}
    /\ staffData.lastCheck > staff.cachedStaffData.lastCheck

\* the fetch returned nothing to an activation that read no staff record
AbsentWithoutPrevious ==
    staff.fetched = "absent" /\ staff.cachedStaffData.kind = "missing"

\* no setStaffData call is made for an activation that read no record and
\* whose fetch returned nothing
C21_WritesNothing ==
    AbsentWithoutPrevious => (staff.pc = "returned" /\ staff.wrote = "none")

C21_StoreUntouched ==
    (staff.fetched = "absent" /\ staff.cachedStaffData.kind = "missing"
        /\ staff'.calls = staff.calls) => staffData' = staffData

\* as long as no staff record exists, a call that is not forced fetches
C21_RetriesWhileMissing ==
    (Decided /\ Configured /\ staffData.kind = "missing") => staff.pc = "fetching"

\* C21: when no staff record exists and the upstream fetch fails,
\* initializeOrUpdateStaffCache writes no staff record, and every later
\* call with force=false attempts the fetch again until one succeeds.
C21_NoRecordNoWriteAndRetried ==
    /\ [](C21_WritesNothing /\ C21_RetriesWhileMissing)
    /\ [][C21_StoreUntouched]_vars

\* the second call, not forced, fetches again after the fetch of the first
\* returned nothing and left the store without a record
C21_Witness ==
    /\ staff.calls > 1
    /\ staff.absents > 0
    /\ staff.pc = "fetching"
    /\ ~staff.forceUpdate
    /\ staff.readOk
    /\ staffData.kind = "missing"

\* ------------------------------------------------------------------------
\* Specification of the two writers of cache entries side by side, on a
\* cache that starts empty: the jobs of the bulk population and the route
\* layer's fetchProcessAndStoreActivity (GET /v1/activity/:activityId)
\* ------------------------------------------------------------------------
WritersInit ==
    /\ inMemoryCookie = NoCookie
    /\ cookieFile = OldCookie
    /\ nextTok = OldCookie + 1
    /\ loginForm = NoLoginForm
    /\ nCalls = 0
    /\ call = [c \in Callers |-> IdleCall]
    /\ now = StartTime
    /\ cache = [i \in Ids |-> Missing]
    /\ EngineIdle
    /\ staffData = NoStaffData
    /\ s3objects = {}
    /\ config = NoS3Configured

\* the clock stands still here: every writer stamps the same now
WritersNext ==
    \/ OrchNext
    \/ \E r \in Runs : PerformBackgroundTasks(r)
    \/ LimitStart
    \/ JobStep
    \/ \E r \in Runs : PromiseAll(r)

WritersSpec == WritersInit /\ [][WritersNext]_vars

\* an entry that exists carries a lastCheck
C22_EntriesCarryLastCheck ==
    \A i \in Ids : cache[i].kind # "missing" => cache[i].lastCheck # NoCheck

\* a write of an entry writes a lastCheck
C22_WritersSetLastCheck ==
    \A i \in Ids : cache'[i] # cache[i] => cache'[i].lastCheck # NoCheck

\* C22: every per-entity cache entry that exists was written with a
\* lastCheck: all writers (normal record, confirmed-empty record, error
\* marker, in the reconciliation job and in the HTTP fetch-and-store path)
\* set lastCheck before writing.
C22_EveryEntryWrittenWithLastCheck ==
    /\ [](C22_EntriesCarryLastCheck)
    /\ [][C22_WritersSetLastCheck]_vars

\* the route layer has written the requested entry and a job has written an
\* error marker for another
C22_Witness ==
    /\ nCalls > 0
    /\ \A c \in Callers : call[c].pc = "idle"
    /\ cache[RequestedId].kind \in {"normal", "api-fetch-empty"}
    /\ \E i \in Ids \ {RequestedId} : cache[i].kind = "error"

\* ------------------------------------------------------------------------
\* Specification of two fetchActivityData calls racing on the credential
\* store: two jobs of one run have called it in the same turn of the event
\* loop, the in-memory holder is empty and the cookie file holds the token
\* of an earlier process run; each call is at its first await, the readFile
\* of loadCachedCookie
\* ------------------------------------------------------------------------
FirstAwait ==
    [IdleCall EXCEPT !.pc = "readFile", !.storeAtStart = TRUE]

RaceInit ==
    /\ inMemoryCookie = NoCookie
    /\ cookieFile = OldCookie
    /\ nextTok = OldCookie + 1
    /\ loginForm = NoLoginForm
    /\ nCalls = Cardinality(Callers)
    /\ call = [c \in Callers |-> FirstAwait]
    /\ now = StartTime
    /\ cache = [i \in Ids |-> Missing]
    /\ EngineIdle
    /\ staffData = NoStaffData
    /\ s3objects = {}
    /\ config = AllConfigured

RaceNext ==
    \E c \in Callers :
        \/ \E ok \in BOOLEAN : ReadFile(c, ok)
        \/ LoadCachedCookie(c)
        \/ \E ok \in BOOLEAN : TestCookieValidity(c, ok)
        \/ \E ok \in BOOLEAN : ClearCookieCache(c, ok)
        \/ \E out \in {"ok", "null", "throw"} : GetSessionId(c, out)
        \/ \E out \in {"ok", "null", "throw"} : GetMSAUTH(c, out)
        \/ \E ok \in BOOLEAN : SaveCookieToCache(c, ok)
        \/ \E out \in FetchOutcomes : GetActivityDetailsRaw(c, out)
        \/ Backoff(c)

RaceSpec == RaceInit /\ [][RaceNext]_vars

\* the race with a file system that answers every readFile, unlink and
\* writeFile without an error
RaceOkNext ==
    \E c \in Callers :
        \/ ReadFile(c, TRUE)
        \/ LoadCachedCookie(c)
        \/ \E ok \in BOOLEAN : TestCookieValidity(c, ok)
        \/ ClearCookieCache(c, TRUE)
        \/ \E out \in {"ok", "null", "throw"} : GetSessionId(c, out)
        \/ \E out \in {"ok", "null", "throw"} : GetMSAUTH(c, out)
        \/ SaveCookieToCache(c, TRUE)
        \/ \E out \in FetchOutcomes : GetActivityDetailsRaw(c, out)
        \/ Backoff(c)

RaceOkSpec == RaceInit /\ [][RaceOkNext]_vars

\* all the calls have completed, and every login that was attempted succeeded
AllDone == \A c \in Callers : Done(c)
EveryLoginSucceeded == \A c \in Callers : Count(call[c].trace, "loginFail") = 0
SomeLogin == \E c \in Callers : Count(call[c].trace, "login") > 0
\* the token the portal issued last
LastIssued == nextTok - 1

\* C23: when several fetchActivityData calls race to detect an expired token
\* and re-authenticate, then once all the calls have completed and each
\* login succeeded, the in-memory holder and the cookie file hold the same
\* token, the one issued last.
C23_StoreConverges ==
    (AllDone /\ EveryLoginSucceeded /\ SomeLogin)
        => /\ inMemoryCookie = cookieFile
           /\ inMemoryCookie = LastIssued

\* two logins in flight at once: the writeFile of the token issued first
\* completes after the writeFile of the token issued last
WritesOutOfOrder ==
    /\ AllDone
    /\ EveryLoginSucceeded
    /\ \A c \in Callers : Count(call[c].trace, "save") = 1
    /\ inMemoryCookie = LastIssued
    /\ cookieFile # NoCookie
    /\ cookieFile # LastIssued

\* the tokens that have been rejected: they failed the validity probe of a
\* call or caused a 4xx on a fetch of a call
Rejected == UNION {call[c].rejected : c \in Callers}

\* caller c sends a POST of getActivityDetailsRaw in this step: the first of
\* a call, or the next attempt of the loop
FetchAttemptStarts(c) ==
    /\ call'[c].pc = "fetch"
    /\ call[c].pc # "fetch" \/ call'[c].attempt # call[c].attempt

\* C24: a token that has been rejected (it failed the validity probe, or
\* caused a 4xx on a fetch) is never used for a later fetch attempt.
C24_RejectedTokenNeverFetchedWith ==
    [][\A c \in Callers :
          FetchAttemptStarts(c) => call'[c].currentCookie \notin Rejected]_vars

\* ------------------------------------------------------------------------
\* Specification of the bulk population on an empty cache, with the object
\* store configured, not configured, or configured without S3_ENDPOINT
\* ------------------------------------------------------------------------
UploadInit ==
    /\ inMemoryCookie = NoCookie
    /\ cookieFile = NoCookie
    /\ nextTok = OldCookie + 1
    /\ loginForm = NoLoginForm
    /\ nCalls = 0
    /\ call = [c \in Callers |-> IdleCall]
    /\ now = StartTime
    /\ cache = [i \in Ids |-> Missing]
    /\ EngineIdle
    /\ staffData = NoStaffData
    /\ s3objects = {}
    /\ config \in {AllConfigured, NoS3Configured, NoEndpointConfigured}

UploadSpec == UploadInit /\ [][PopulateNext]_vars

\* the upload of job j returns in this step without a url: no client, a
\* caught failure, or no S3_ENDPOINT to build the url from
UploadGivesNoUrl(j) ==
    /\ job[j].pc = "upload"
    /\ job'[j].pc # "upload"
    /\ ~config.s3 \/ ~config.endpoint \/ s3objects' = s3objects

\* the job goes on to setActivityData with a normal record that has a
\* lastCheck, no error marker and the data:image photo
C25_RecordKeepsEmbeddedPhoto ==
    \A j \in JobIds :
        UploadGivesNoUrl(j) =>
            /\ job'[j].pc = "set"
            /\ job'[j].rec.kind = "normal"
            /\ ~job'[j].rec.error
            /\ job'[j].rec.lastCheck # NoCheck
            /\ job'[j].rec.photo = Base64Photo

\* the job completes, and what it caches is that record
C25_JobCompletes ==
    \A j \in JobIds :
        (job[j].pc = "set" /\ job[j].rec.photo = Base64Photo /\ job'[j] # job[j]) =>
            /\ job'[j].pc = "done"
            /\ cache'[j[2]] \in {job[j].rec, cache[j[2]]}

\* a cached record with an embedded photo is a normal record
C25_Cached ==
    \A i \in Ids :
        cache[i].photo = Base64Photo =>
            /\ cache[i].kind = "normal"
            /\ ~cache[i].error
            /\ cache[i].lastCheck # NoCheck

\* C25: when the remote object store is not configured or an image upload
\* fails, the entity job still completes successfully: the record is cached
\* with a lastCheck and without an error marker, and its image field keeps
\* the raw embedded (data:image) form.
C25_UploadFailureKeepsRecord ==
    /\ [](C25_Cached)
    /\ [][C25_RecordKeepsEmbeddedPhoto /\ C25_JobCompletes]_vars

\* with the object store configured, a job whose upload failed has completed
\* and its record with the embedded photo is cached
C25_Witness ==
    \E j \in JobIds :
        /\ config = AllConfigured
        /\ job[j].pc = "done"
        /\ s3objects = {}
        /\ cache[j[2]] = PhotoRecord(cache[j[2]].lastCheck, Base64Photo)
        /\ cache[j[2]].lastCheck >= StartTime

\* ------------------------------------------------------------------------
\* Specification of fetchActivityData with an upstream that may leave any
\* request unanswered. The POST of testCookieValidity and the POST of
\* getActivityDetailsRaw are sent with timeout: 20000, so each of them
\* completes, with an answer or with the timeout error. The GET of
\* getSessionId and the POST of getMSAUTH are sent without a timeout option
\* (the axios default is none): they complete only when the portal answers.
\* File operations and timers always complete.
\* ------------------------------------------------------------------------
TimeoutFairness ==
    \A c \in Callers :
        /\ WF_vars(\E ok \in BOOLEAN : ReadFile(c, ok))
        /\ WF_vars(LoadCachedCookie(c))
        /\ WF_vars(\E ok \in BOOLEAN : TestCookieValidity(c, ok))
        /\ WF_vars(\E ok \in BOOLEAN : ClearCookieCache(c, ok))
        /\ WF_vars(\E ok \in BOOLEAN : SaveCookieToCache(c, ok))
        /\ WF_vars(\E out \in FetchOutcomes : GetActivityDetailsRaw(c, out))
        /\ WF_vars(Backoff(c))

TimeoutSpec == OrchSpec /\ TimeoutFairness

\* C26: fetchActivityData always terminates even if the upstream portal
\* never answers a request: every call that was started completes.
C26_AlwaysTerminates ==
    \A c \in Callers : (call[c].pc # "idle") ~> Done(c)

\* the last answer to getActivityDetailsRaw of caller c was a 4xx
Got4xx(c) == call[c].lastOut = "4xx"
\* getActivityDetailsRaw of caller c is running: a POST is in flight or the
\* backoff delay is being waited
InFetchClient(c) == call[c].pc \in {"fetch", "backoff"}

\* after a 4xx the Fetch Client call is over and an AuthenticationError was
\* raised to fetchActivityData
C27_Raised ==
    \A c \in Callers :
        Got4xx(c) => /\ ~InFetchClient(c)
                     /\ Count(call[c].trace, "fetchAuth") >= 1

\* the step that receives the 4xx raises: no delay is set, no attempt added
C27_Immediately ==
    \A c \in Callers :
        (call[c].pc = "fetch" /\ call'[c] # call[c] /\ call'[c].lastOut = "4xx") =>
            /\ call'[c].pc \in {"unlink", "done"}
            /\ call'[c].delay = call[c].delay
            /\ Count(call'[c].trace, "fetchAuth") = Count(call[c].trace, "fetchAuth") + 1
            /\ Count(call'[c].trace, "fetch") = Count(call[c].trace, "fetch")

\* C27: in getActivityDetailsRaw a response with status 400-499 on any
\* attempt is raised immediately as AuthenticationError: no further attempt
\* is made and no backoff delay is waited before raising.
C27_4xxRaisedAtOnce ==
    /\ [](C27_Raised)
    /\ [][C27_Immediately]_vars

\* a 4xx in the first pass: fetchActivityData is clearing the store
C27_Witness ==
    \E c \in Callers :
        /\ Got4xx(c)
        /\ call[c].pc = "unlink"
        /\ call[c].trace[Len(call[c].trace) - 1] = "fetchAuth"

\* the last answer to getActivityDetailsRaw of caller c was a failure that
\* is not a 4xx: a network error or 5xx, or a malformed payload
GotOtherFailure(c) == call[c].lastOut \in {"error", "badshape"}

\* a failure before the last attempt keeps the Fetch Client call going
C28_Retried ==
    \A c \in Callers :
        (/\ call[c].pc = "fetch"
         /\ call'[c] # call[c]
         /\ call'[c].lastOut \in {"error", "badshape"}
         /\ call[c].attempt < maxRetries - 1)
        => call'[c].pc \in {"fetch", "backoff"}

\* when the call is over after such a failure, the error was raised to
\* fetchActivityData: getActivityDetailsRaw did not return null
C28_Reraised ==
    \A c \in Callers :
        (GotOtherFailure(c) /\ ~InFetchClient(c))
        => call[c].trace[Len(call[c].trace)] = "fetchErr"

\* C28: in getActivityDetailsRaw every failure that is not a 4xx response
\* (network error, 5xx, malformed payload, a JSON body whose d field is not
\* a string included) is retried until the budget of 3 attempts is used,
\* and when all attempts fail the last error is re-raised to the caller:
\* the function does not return absent in that case.
C28_OtherFailuresRetriedThenReraised ==
    /\ [](C28_Reraised)
    /\ [][C28_Retried]_vars

\* the last answer to getActivityDetailsRaw of caller c had isError true
GotIsError(c) == call[c].lastOut = "isError"

\* after isError the call has returned absent
C29_ReturnsAbsent ==
    \A c \in Callers :
        GotIsError(c) => /\ Done(c)
                         /\ call[c].result = "absent"
                         /\ call[c].trace[Len(call[c].trace)] = "fetchNull"

\* the step that receives isError ends the call: no other attempt, no
\* error, no clearCookieCache and no login, and the store is left alone
C29_NoRetryNoReauth ==
    \A c \in Callers :
        (call[c].pc = "fetch" /\ call'[c] # call[c] /\ call'[c].lastOut = "isError") =>
            /\ call'[c].pc = "done"
            /\ call'[c].phase = call[c].phase
            /\ Count(call'[c].trace, "fetchAuth") = Count(call[c].trace, "fetchAuth")
            /\ Count(call'[c].trace, "fetchErr") = Count(call[c].trace, "fetchErr")
            /\ Count(call'[c].trace, "clear") = Count(call[c].trace, "clear")
            /\ Count(call'[c].trace, "login") = Count(call[c].trace, "login")
            /\ inMemoryCookie' = inMemoryCookie
            /\ cookieFile' = cookieFile

\* C29: in getActivityDetailsRaw a well-formed response whose inner payload
\* has isError true makes the function return absent immediately: it is not
\* retried, raises no error and triggers no re-authentication in
\* fetchActivityData.
C29_IsErrorReturnsAbsentAtOnce ==
    /\ [](C29_ReturnsAbsent)
    /\ [][C29_NoRetryNoReauth]_vars

\* a cached token probed valid, then isError: the call is over after one
\* Fetch Client call and no login
C29_Witness ==
    \E c \in Callers :
        /\ GotIsError(c)
        /\ call[c].trace = <<"probeValid", "fetch", "fetchNull">>
        /\ call[c].result = "absent"

\* testCookieValidity has sent at most MAX_RETRIES requests; it returned
\* false only after MAX_RETRIES requests, and it never throws
C30_AtMostThree ==
    \A c \in Callers :
        /\ call[c].pc = "probe" => call[c].attempt \in 1..MAX_RETRIES
        /\ call[c].probes <= MAX_RETRIES
        /\ Count(call[c].trace, "probeInvalid") > 0 => call[c].probes = MAX_RETRIES
        /\ Count(call[c].trace, "probeValid") > 0 => call[c].probes \in 1..MAX_RETRIES
        /\ call[c].pc # "raised"

\* an answer to a probe request: true and the fetch follows, or the next
\* request, or false after the last request and the store is cleared
C30_ProbeStep ==
    \A c \in Callers :
        (call[c].pc = "probe" /\ call'[c] # call[c]) =>
            \/ /\ call'[c].pc = "fetch"
               /\ call'[c].probes = call[c].attempt
               /\ Count(call'[c].trace, "probeValid") = 1
            \/ /\ call'[c].pc = "probe"
               /\ call[c].attempt < MAX_RETRIES
               /\ call'[c].attempt = call[c].attempt + 1
            \/ /\ call'[c].pc = "unlink"
               /\ call[c].attempt = MAX_RETRIES
               /\ call'[c].probes = MAX_RETRIES
               /\ Count(call'[c].trace, "probeInvalid") = 1

\* C30: testCookieValidity makes at most 3 probe requests, returns true on
\* the first 2xx response, returns false only after all 3 attempts have
\* failed, and never throws for any network or HTTP failure.
C30_ProbeAtMostThreeNeverThrows ==
    /\ [](C30_AtMostThree)
    /\ [][C30_ProbeStep]_vars

\* two failed requests, then a 2xx on the third: true
C30_Witness ==
    \E c \in Callers :
        /\ call[c].probes = MAX_RETRIES
        /\ Count(call[c].trace, "probeValid") = 1
        /\ call[c].pc = "fetch"

\* ------------------------------------------------------------------------
\* Specification of one fetchActivityData call in a process whose credential
\* store is in any of the states earlier calls leave behind: both tiers
\* empty, a cold start with a cookie file, both tiers holding the token, and
\* the in-memory holder alone holding it (its writeFile failed)
\* ------------------------------------------------------------------------
StoreInit ==
    /\ inMemoryCookie \in {NoCookie, OldCookie}
    /\ cookieFile \in {NoCookie, OldCookie}
    /\ nextTok = OldCookie + 1
    /\ loginForm = NoLoginForm
    /\ nCalls = 0
    /\ call = [c \in Callers |-> IdleCall]
    /\ now = 0
    /\ cache = [i \in Ids |-> Missing]
    /\ EngineIdle
    /\ staffData = NoStaffData
    /\ s3objects = {}
    /\ config = AllConfigured

StoreSpec == StoreInit /\ [][OrchNext]_vars

\* loadCachedCookie answers from the in-memory holder when it is set, and
\* leaves both tiers alone
C31_LoadFromHolder ==
    \A c \in Callers :
        (/\ call[c].pc = "idle" /\ call'[c].pc # "idle"
         /\ ~call'[c].forceLogin /\ inMemoryCookie # NoCookie)
        => /\ call'[c].loaded = inMemoryCookie
           /\ inMemoryCookie' = inMemoryCookie
           /\ cookieFile' = cookieFile

\* saveCookieToCache(t) sets the holder to t before it awaits writeFile
C31_SaveSetsHolder ==
    \A c \in Callers :
        (call[c].pc = "msauth" /\ call'[c].pc = "writeFile")
        => /\ call'[c].currentCookie # NoCookie
           /\ inMemoryCookie' = call'[c].currentCookie

\* writeFile ends, well or not: the holder is not touched, the file holds t
\* or what it held, and the call goes on to the Fetch Client with t
C31_WriteFailureLogged ==
    \A c \in Callers :
        (call[c].pc = "writeFile" /\ call'[c] # call[c])
        => /\ inMemoryCookie' = inMemoryCookie
           /\ cookieFile' \in {call[c].currentCookie, cookieFile}
           /\ call'[c].pc = "fetch"
           /\ call'[c].currentCookie = call[c].currentCookie

\* a cold start reads the token of the cookie file whenever there is one
C31_ColdStartReadsFile ==
    \A c \in Callers :
        (call[c].pc = "readFile" /\ call'[c].pc = "readDone")
        => call'[c].fileBuf = cookieFile

\* a cold start reads the token of the cookie file, or nothing when the file
\* is missing or cannot be read
C31_ColdStartReadsFileOrFails ==
    \A c \in Callers :
        (call[c].pc = "readFile" /\ call'[c].pc = "readDone")
        => call'[c].fileBuf \in {cookieFile, NoCookie}

\* loadCachedCookie returns what was read and populates the holder with it
C31_ColdStartPopulates ==
    \A c \in Callers :
        (call[c].pc = "readDone" /\ call'[c].pc # "readDone")
        => /\ call'[c].loaded = call[c].fileBuf
           /\ inMemoryCookie' =
                 IF call[c].fileBuf # NoCookie THEN call[c].fileBuf
                 ELSE inMemoryCookie
           /\ cookieFile' = cookieFile

\* the round trip as stated: a cold start returns the file's token whenever
\* the file holds one
C31_RoundTripAsStated ==
    [][/\ C31_LoadFromHolder
       /\ C31_SaveSetsHolder
       /\ C31_WriteFailureLogged
       /\ C31_ColdStartReadsFile
       /\ C31_ColdStartPopulates]_vars

\* C31: after saveCookieToCache(t) the in-memory holder holds t and
\* loadCachedCookie returns the holder's token, also when writeFile failed
\* (the call goes on); on a cold start loadCachedCookie returns the cookie
\* file's token and populates the holder with it when the file exists and
\* can be read, and returns absent when it is missing or the read fails.
C31_RoundTrip ==
    [][/\ C31_LoadFromHolder
       /\ C31_SaveSetsHolder
       /\ C31_WriteFailureLogged
       /\ C31_ColdStartReadsFileOrFails
       /\ C31_ColdStartPopulates]_vars

\* a cold start returned the file's token, the login that followed saved a
\* new one whose writeFile failed: the holder has it, the file has not
C31_Witness ==
    \E c \in Callers :
        /\ call[c].pc = "fetch"
        /\ call[c].loaded = OldCookie
        /\ call[c].fileBuf = OldCookie
        /\ call[c].currentCookie > OldCookie
        /\ inMemoryCookie = call[c].currentCookie
        /\ cookieFile = OldCookie

\* clearCookieCache empties the in-memory holder before it awaits unlink
C32_ClearEmptiesHolder ==
    \A c \in Callers :
        (call[c].pc # "unlink" /\ call'[c].pc = "unlink")
        => inMemoryCookie' = NoCookie

\* unlink ends: the cookie file is gone, the holder is not touched and the
\* caller goes on to log in
C32_UnlinkRemovesFile ==
    \A c \in Callers :
        (call[c].pc = "unlink" /\ call'[c] # call[c])
        => /\ cookieFile' = NoCookie
           /\ inMemoryCookie' = inMemoryCookie
           /\ call'[c].pc = "sessionId"

\* unlink ends: the cookie file is gone, or is what it was when unlink
\* failed; the holder is not touched and the caller goes on to log in
C32_UnlinkRemovesFileOrFails ==
    \A c \in Callers :
        (call[c].pc = "unlink" /\ call'[c] # call[c])
        => /\ cookieFile' \in {NoCookie, cookieFile}
           /\ inMemoryCookie' = inMemoryCookie
           /\ call'[c].pc = "sessionId"

\* clearCookieCache has just returned to the only call of the process
JustCleared(c) ==
    /\ nCalls = 1
    /\ call[c].pc = "sessionId"
    /\ Len(call[c].trace) >= 2
    /\ call[c].trace[Len(call[c].trace) - 1] = "clear"

\* what loadCachedCookie would return now
NextLoad == IF inMemoryCookie # NoCookie THEN inMemoryCookie ELSE cookieFile

\* the clear as stated: both tiers are empty once it has returned
C32_BothTiersEmptyAsStated ==
    /\ [](\A c \in Callers : JustCleared(c) => NextLoad = NoCookie)
    /\ [][C32_ClearEmptiesHolder /\ C32_UnlinkRemovesFile]_vars

\* C32: clearCookieCache empties the in-memory holder and removes the cookie
\* file; it never throws. When unlink fails with another error than ENOENT
\* the file stays, and it is the only token a later load can return.
C32_ClearEmptiesBothTiers ==
    /\ [](\A c \in Callers : JustCleared(c) => inMemoryCookie = NoCookie)
    /\ [][C32_ClearEmptiesHolder /\ C32_UnlinkRemovesFileOrFails]_vars

\* the clear has emptied a store whose two tiers held the token
C32_Witness ==
    \E c \in Callers :
        /\ JustCleared(c)
        /\ call[c].storeAtStart
        /\ call[c].loaded = OldCookie
        /\ inMemoryCookie = NoCookie
        /\ cookieFile = NoCookie

\* ------------------------------------------------------------------------
\* Specification of getMSAUTH taken alone, for every Set-Cookie header of at
\* most MaxHeaderLen entries
\* ------------------------------------------------------------------------
MsAuthInit ==
    /\ inMemoryCookie = NoCookie
    /\ cookieFile = NoCookie
    /\ nextTok = OldCookie + 1
    /\ loginForm \in {Answered(h) : h \in SetCookieHeaders}
    /\ nCalls = 0
    /\ call = [c \in Callers |-> IdleCall]
    /\ now = 0
    /\ cache = [i \in Ids |-> Missing]
    /\ EngineIdle
    /\ staffData = NoStaffData
    /\ s3objects = {}
    /\ config = AllConfigured

MsAuthNext ==
    \/ GetMSAUTHReturn
    \/ GetCompleteCookies

MsAuthSpec == MsAuthInit /\ [][MsAuthNext]_vars

\* entry i of the header is a .ASPXFORMSAUTH cookie with a value
Candidate(h, i) == h[i].name = ".ASPXFORMSAUTH" /\ h[i].value # ""

\* C33: getMSAUTH returns the last entry of the Set-Cookie header, in header
\* order, that is a .ASPXFORMSAUTH cookie with a non-empty value; it returns
\* null when there is none, and getCompleteCookies then throws.
C33_LastNonEmptyCandidate ==
    loginForm.pc \in {"returned", "done"} =>
        LET h == loginForm.setCookieHeader
            v == loginForm.formsAuthCookieValue
        IN  /\ (\E i \in 1..Len(h) : Candidate(h, i)) =>
                   \E i \in 1..Len(h) :
                       /\ Candidate(h, i)
                       /\ \A k \in (i + 1)..Len(h) : ~Candidate(h, k)
                       /\ v = h[i]
            /\ (\A i \in 1..Len(h) : ~Candidate(h, i)) => v = Null
            /\ loginForm.pc = "done" =>
                   (loginForm.completeCookies = "throw" <=> v = Null)

\* two candidates with different values and an empty one after them: the
\* second value is returned
C33_Witness ==
    /\ loginForm.pc = "done"
    /\ Len(loginForm.setCookieHeader) = 3
    /\ loginForm.setCookieHeader[1] = [name |-> ".ASPXFORMSAUTH", value |-> "A"]
    /\ loginForm.setCookieHeader[2] = [name |-> ".ASPXFORMSAUTH", value |-> "B"]
    /\ loginForm.setCookieHeader[3] = [name |-> ".ASPXFORMSAUTH", value |-> ""]
    /\ loginForm.formsAuthCookieValue = [name |-> ".ASPXFORMSAUTH", value |-> "B"]
    /\ loginForm.completeCookies = "cookie"

\* C34: deleteS3Objects is best-effort per object: when the deletion of some
\* objects of the list fails, every other object of the list is deleted all
\* the same, and the function returns to cleanupOrphanedS3Images, which
\* returns normally.
C34_BestEffortDeletion ==
    [][\A r \in Runs :
          (run[r].pc = "delete" /\ run'[r].pc # "delete")
          => /\ run'[r].failed \subseteq run[r].orphaned
             /\ run'[r].deleted = run[r].orphaned \ run'[r].failed
             /\ s3objects' = s3objects \ run'[r].deleted
             /\ run'[r].pc \in {"waiting", "returned"}]_vars

\* one deletion of a run was rejected, and an object of the bucket was
\* deleted by the same batch
C34_Witness ==
    \E r \in Runs :
        /\ run[r].pc = "returned"
        /\ run[r].failed # {}
        /\ run[r].failed \subseteq s3objects
        /\ run[r].deleted # {}
        /\ run[r].deleted \cap s3objects = {}

\* attempt k (k = attempt + 1) of getActivityDetailsRaw has failed with a
\* failure of the kinds in S and the call is not over
RetriedAfter(c, S) ==
    /\ call[c].pc = "fetch"
    /\ call'[c] # call[c]
    /\ call'[c].lastOut \in S
    /\ call'[c].pc \in {"fetch", "backoff"}

\* the delay of k * 1000 ms is waited before attempt k + 1
WaitsBeforeNext(c) ==
    /\ call[c].attempt < maxRetries - 1
    /\ call'[c].pc = "backoff"
    /\ call'[c].delay = (call[c].attempt + 1) * 1000
    /\ call'[c].attempt = call[c].attempt

\* no delay is waited after the last attempt
C35_NoDelayAfterLast ==
    \A c \in Callers :
        (call[c].pc = "fetch" /\ call[c].attempt = maxRetries - 1)
        => call'[c].pc # "backoff"

\* the failures that throw (network error, timeout, 5xx, a body that is not
\* JSON) wait the delay before the next attempt
C35_ThrownFailuresWait ==
    [][/\ \A c \in Callers : RetriedAfter(c, {"error"}) => WaitsBeforeNext(c)
       /\ C35_NoDelayAfterLast]_vars

\* C35: in getActivityDetailsRaw a delay of k * 1000 ms is waited between
\* the attempts k and k + 1 (k = 1, 2) after every kind of failed attempt
\* that is retried, and no delay is waited after the last attempt.
C35_DelayBetweenAttempts ==
    [][/\ \A c \in Callers :
             RetriedAfter(c, {"error", "badshape"}) => WaitsBeforeNext(c)
       /\ C35_NoDelayAfterLast]_vars

\* C36: cleanupOrphanedS3Images deletes no object that a cached record
\* references, also when the key scan or the read of a record fails during
\* the run: no object deleted by a cleanup is the photo of a cached record.
C36_FailedReadsDeleteNothingReferenced ==
    \A r \in Runs :
        \A o \in run[r].deleted :
            \A i \in Ids : cache[i].photo # ConstructS3Url(o)

\* ------------------------------------------------------------------------
\* Specification of two fetchActivityData calls that have both loaded the
\* stored token and seen it accepted by the probe, and are at the await of
\* their first Fetch Client request: from here on only saveCookieToCache and
\* clearCookieCache touch the credential store; the file system answers
\* every unlink and writeFile without an error
\* ------------------------------------------------------------------------
PastProbe ==
    StartFetch(Ev([IdleCall EXCEPT !.storeAtStart = TRUE,
                                   !.currentCookie = OldCookie,
                                   !.loaded = OldCookie,
                                   !.probes = 1,
                                   !.requests = 1], "probeValid"))

SaveClearInit ==
    /\ inMemoryCookie = OldCookie
    /\ cookieFile = OldCookie
    /\ nextTok = OldCookie + 1
    /\ loginForm = NoLoginForm
    /\ nCalls = Cardinality(Callers)
    /\ call = [c \in Callers |-> PastProbe]
    /\ now = StartTime
    /\ cache = [i \in Ids |-> Missing]
    /\ EngineIdle
    /\ staffData = NoStaffData
    /\ s3objects = {}
    /\ config = AllConfigured

SaveClearNext ==
    \E c \in Callers :
        \/ ClearCookieCache(c, TRUE)
        \/ \E out \in {"ok", "null", "throw"} : GetSessionId(c, out)
        \/ \E out \in {"ok", "null", "throw"} : GetMSAUTH(c, out)
        \/ SaveCookieToCache(c, TRUE)
        \/ \E out \in FetchOutcomes : GetActivityDetailsRaw(c, out)
        \/ Backoff(c)

SaveClearSpec == SaveClearInit /\ [][SaveClearNext]_vars

\* C37: once every interleaved saveCookieToCache and clearCookieCache of
\* concurrent fetchActivityData calls has run to completion, the two tiers of
\* the credential store agree: the in-memory holder and the cookie file are
\* both empty or hold the same token.
C37_TiersAgreeAtRest ==
    AllDone => inMemoryCookie = cookieFile

\* the last attempt of the first Fetch Client call of c fails with an error
\* that is not a 4xx response
FirstFetchExhausted(c) ==
    /\ call[c].pc = "fetch"
    /\ call[c].phase = 1
    /\ call[c].attempt = maxRetries - 1
    /\ call'[c] # call[c]
    /\ call'[c].lastOut = "error"

\* the call returns absent at that step; the store is left as it is, and
\* the step starts no clear, no login and no Fetch Client call
C38_ReturnsAbsentStoreUntouched ==
    \A c \in Callers :
        FirstFetchExhausted(c)
        => /\ Done(c)'
           /\ call'[c].result = "absent"
           /\ inMemoryCookie' = inMemoryCookie
           /\ cookieFile' = cookieFile
           /\ nextTok' = nextTok
           /\ Count(call'[c].trace, "clear") = Count(call[c].trace, "clear")
           /\ Count(call'[c].trace, "fetch") = 1
           /\ Count(call'[c].trace, "login") = Count(call[c].trace, "login")

\* no attempt of that Fetch Client call and no backoff touches the store
C38_RetriesLeaveStore ==
    \A c \in Callers :
        (/\ call[c].pc \in {"fetch", "backoff"}
         /\ call'[c] # call[c]
         /\ call'[c].lastOut # "4xx")
        => /\ inMemoryCookie' = inMemoryCookie
           /\ cookieFile' = cookieFile

\* a call that ended on the error of its first Fetch Client call
EndedOnFetchError(c) ==
    /\ Done(c)
    /\ call[c].phase = 1
    /\ call[c].trace # << >>
    /\ call[c].trace[Len(call[c].trace)] = "fetchErr"

\* C38: when the first Fetch Client call of fetchActivityData fails with an
\* error that is not an authentication error, after its retries, the call
\* returns absent and leaves the credential store unchanged: no clear, no
\* second login and no second Fetch Client call happen.
C38_OtherErrorReturnsAbsent ==
    /\ [](\A c \in Callers :
            EndedOnFetchError(c)
            => /\ call[c].result = "absent"
               /\ Count(call[c].trace, "clear") <= 1
               /\ Count(call[c].trace, "login") <= 1
               /\ Count(call[c].trace, "fetch") = 1
               /\ Count(call[c].trace, "fetchAuth") = 0)
    /\ [][C38_ReturnsAbsentStoreUntouched /\ C38_RetriesLeaveStore]_vars

\* a call whose loaded token passed the probe and whose three fetch attempts
\* failed has returned absent; both tiers still hold the token
C38_Witness ==
    \E c \in Callers :
        /\ EndedOnFetchError(c)
        /\ call[c].result = "absent"
        /\ call[c].loaded = OldCookie
        /\ call[c].requests = call[c].probes + maxRetries
        /\ inMemoryCookie = OldCookie
        /\ cookieFile = OldCookie

\* C39: after a refresh that fetched a payload and stored the staff record,
\* the record holds exactly the staff entries of that payload, less the
\* blacklisted keys, and a lastCheck: no entry of an earlier payload of the
\* same process that is missing from the latest one.
C39_RecordHoldsLatestPayloadOnly ==
    (staff.pc = "returned" /\ staff.fetched = "payload" /\ staff.wrote = "stored")
    => /\ staffData.entries = staff.lParms \ BlackList
       /\ staffData.lastCheck # NoCheck

\* the largest number of HTTP requests of one call: MAX_RETRIES probes, two
\* logins of two requests, two Fetch Client calls of maxRetries requests
MaxRequests == MAX_RETRIES + 2 * 2 + 2 * maxRetries

\* C40: one call of fetchActivityData sends at most 13 HTTP requests to the
\* portal: at most 3 probe requests, at most 2 logins of 2 requests each and
\* at most 2 Fetch Client calls of at most 3 requests each.
C40_AtMostThirteenRequests ==
    \A c \in Callers :
        /\ MaxRequests = 13
        /\ call[c].requests <= MaxRequests
        /\ call[c].probes <= MAX_RETRIES
        /\ Count(call[c].trace, "login") <= 2
        /\ Count(call[c].trace, "fetch") <= 2
        /\ call[c].requests <= MAX_RETRIES + 2 * Count(call[c].trace, "login")
                                   + maxRetries * Count(call[c].trace, "fetch")

\* a call that has returned after 13 requests: three failed probes, a login,
\* a Fetch Client call ended by a 4xx at its third request, a second login
\* and a second Fetch Client call of three requests
C40_Witness ==
    \E c \in Callers :
        /\ Done(c)
        /\ call[c].requests = 13
        /\ call[c].probes = 3
        /\ Count(call[c].trace, "login") = 2
        /\ Count(call[c].trace, "fetch") = 2

====
